---- MODULE Spec2Model ----
(***************************************************************************)
(* Model of pgen_client.  The main specification, Spec, is the spotread    *)
(* measurement driver (src/src/spotread.rs) together with the part of the  *)
(* external job worker (src/src/external.rs) that starts it and feeds its  *)
(* command channel.                                                        *)
(*                                                                         *)
(* The tool (the spawned spotread child) is the environment: it prints     *)
(* lines on stdout and stderr and may end at any moment.  A stdout line    *)
(* is represented by its kind, i.e. by what the driver's string tests      *)
(* (starts_with / contains) and the result parser can tell about it.       *)
(* One process lifetime is modelled: one start request, then measure and   *)
(* stop requests.  Of the updates sent to the app, the SpotreadStarted and *)
(* SpotreadRes ones are recorded.                                          *)
(*                                                                         *)
(* The other specifications each move a group of variables of their own    *)
(* and leave the rest unchanged: the reading's target and the displayed    *)
(* pattern, the measurement timeout, the result line parser, the reference *)
(* colour, gamma and its average, the correlated colour temperature, the   *)
(* transfer functions, the Dolby Vision patterns of the controller, the    *)
(* job worker's Processing updates, try_measure against a tool that        *)
(* answers trigger newlines, the app measuring its patch list, the job     *)
(* worker starting and stopping subprocesses, the TCP generator client,    *)
(* the controller with its PGenerator client and the GUI's copy of the     *)
(* state, and the colour picker scaling 8 bit components.                  *)
(* Floating point values are fixed point numbers or fractions.             *)
(***************************************************************************)
EXTENDS Integers, Sequences, FiniteSets, TLC

\* ---------------------------------------------------------------- bounds
MaxCmds == 2      \* measure requests the job worker forwards
MaxOut == 2       \* lines the tool prints on stdout
MaxErr == 1       \* lines the tool prints on stderr
MaxStops == 1     \* stop requests the job worker receives
MaxVal == 2       \* distinct number tokens on a result line
MaxResults == 2   \* readings in a result set
MaxMin == 2       \* largest black level, in tenths
MaxNeg == 1       \* most negative transfer-function input, in tenths
MaxJobs == 4      \* commands the app sends to the job worker
MaxXyz == 8       \* largest XYZ component of the input grid
MaxPatches == 2   \* patches in the list
MaxClicks == 2    \* clicks on the measure buttons
MaxProcs == 2     \* subprocesses the job worker starts
MaxProcCmds == 7  \* requests the job worker handles
MaxGenCmds == 4   \* clicks on the generator client button
MaxCtlCmds == 2   \* commands the GUI sends to the controller
MaxTicks == 2     \* heartbeat and reconnect ticks
MaxCtlQ == 2      \* commands waiting in the controller's channel
MaxAppQ == 3      \* updates waiting in the app's channel

\* ------------------------------------------------------ program constants
ChannelCap == 5   \* tokio::sync::mpsc::channel(5)
U8Max == 255      \* u8::MAX
MeasureTimeoutSecs == 20    \* Duration::from_secs(20) around try_measure

\* -------------------------------------------------------------- line kinds
\* "prompt"    : contains "take a reading"
\* "result"    : starts with "Result is XYZ:" and parses (three XYZ, three Lab)
\* "badresult" : starts with "Result is XYZ:" and ReadingResult::new fails
\* "failed"    : starts with "Spot read failed"
\* "other"     : any other non-empty line (banner text, progress output)
LineKinds == {"prompt", "result", "badresult", "failed", "other"}

\* "Diagnostic": starts with "Diagnostic"; "other": any other stderr line
ErrKinds == {"Diagnostic", "other"}

StartsWithResult(l) == l \in {"result", "badresult"}

ParsesOk(l) == l = "result"

StartsWithFailed(l) == l = "failed"

ContainsPrompt(l) == l = "prompt"

StartsWithDiagnostic(l) == l = "Diagnostic"

\* What is left of a line once its first byte has been taken away: a test on
\* the start of the line no longer matches, a test on a substring still does.
Beheaded(l) == IF StartsWithResult(l) \/ StartsWithFailed(l) THEN "other" ELSE l

VARIABLES
    pc,                \* position of the driver (start call, then spawned task)
    can_take_reading,  \* SpotreadProc.can_take_reading
    rxq,               \* the driver's command channel (tx/rx), FIFO
    cur,               \* id of the DoReading being handled (0: none)
    stdout,            \* lines the tool has printed and the driver has not read
    stderr,            \* the same for stderr
    child,             \* "none", "running", "exited", "reaped", "killed"
    events,            \* SpotreadStarted / SpotreadRes updates sent to the app
    spotread_tx,       \* the job worker holds a command sender
    jw,                \* job worker: "starting" (inside the start call), "idle"
    startRes,          \* result of start_spotread_worker: "pending", "ok", "err"
    interactive,       \* argument of the exit() in progress
    displayed,         \* id of the pattern last sent to the display
    doneMeasuring,     \* SpotreadDoneMeasuring messages sent to the job worker
    nOut, nErr, nSent, \* counters that bound the environment
    m,                 \* bookkeeping about the latest DoReading
    hist,              \* commands taken from the channel, in the order taken,
                       \* each with how its handling ended ("none": not yet)
    exitLog,           \* steps exit() has performed
    diagRead,          \* a "Diagnostic" line has been read from stderr
    nStop,             \* stop requests the job worker has handled
    promptSeen,        \* the driver has read a line that contains the prompt
    nDoneProcessing,   \* DoneProcessing updates sent by the start and stop
                       \* handlers of the job worker
    exitStatus,        \* status child.wait() returned: "none" (not waited
                       \* for), "zero", "nonzero"
    \* the path of a measurement target, from the app to the result
    cal_state,         \* the app's global calibration parameters
    external_q,        \* the job worker's command channel (external_tx)
    cmd_q,             \* the driver's command channel, with the targets
    handling,          \* the DoReading the driver is handling (NoCmd: none)
    issued,            \* targets attached to the requests, in issue order
    results,           \* SpotreadRes(Some) sent: request number and target
    \* the pattern shown for a measurement
    ctl_patch,         \* controller.state.pattern_config.patch_colour
    display,           \* patch colour of the pattern last sent to the display
    pstep,             \* the DoReading arm: "idle", "taken", "settled",
                       \* "triggered"
    pcmd,              \* patch colour of the DoReading being handled
    nPat,              \* DoReading commands taken
    \* the time limit of a measurement
    tstate,            \* "idle", "sync" / "read" (try_measure waits in its
                       \* first / second read), "done", "abandoned"
    elapsed,           \* seconds since timeout(.., try_measure) was entered
    nTimed,            \* measurements begun
    \* one stdout line through the result loop of try_measure
    line,              \* the line: text before "XYZ:", the number tokens
                       \* after "XYZ:" and after "D50 Lab:", trailing text
    out,               \* what the loop did with it
    \* the reference colour of a measurement request (one component)
    cfg,               \* state.pattern_config: limited_range, bit_depth
    list,              \* internal_gen.list: empty, or the selected patch
                       \* (one component of its rgb)
    ref_rgb,           \* the ref_rgb component of the target last built
    \* gamma of a reading and of a result set
    reading,           \* a ReadingResult: target.ref_rgb in hundredths, and
                       \* g, the value LuminanceEotf::gamma yields for it
    gamma_out,         \* what gamma() returned for it
    readings,          \* the results shown in the summary
    avg_gamma,         \* what results_average_gamma returned for them
    \* correlated colour temperature
    xyz,               \* the XYZ given to xyz_to_cct
    cct_out,           \* what xyz_to_cct returned, with i, p and the
                       \* interpolated reciprocal temperature
    \* transfer functions
    tf_in,             \* EOTF kind, black level, input and flags
    val_out,           \* what value() returned
    bpc_out,           \* what value_bpc() returned
    \* Dolby Vision patterns
    pattern_config,    \* the controller's state.pattern_config
    dovi,              \* state.is_dovi_mode()
    dv_req,            \* the config of the last send_pattern_from_cfg call
    dv_sent,           \* the pattern last sent to the device
    dv_last,           \* what the controller did last
    \* the job worker and the app's processing flag
    ext_q,             \* the job worker's command channel
    job_tx,            \* the job worker holds a spotread sender
    drv,               \* the driver that sender leads to: "none",
                       \* "running", "ended"
    drv_q,             \* that driver's command channel
    processing,        \* the last of the Processing / DoneProcessing
                       \* updates of the job worker was Processing
    nJobs,             \* commands the app has sent
    \* try_measure and a tool that answers trigger newlines
    ms_pc,             \* "Idle", "Begin", "Sync" (first read), "Read"
    ms_cur,            \* number of the DoReading being handled (0: none)
    ms_flag,           \* SpotreadProc.can_take_reading
    ms_out,            \* lines printed by the tool and not read yet
    ms_todo,           \* lines the tool is still to print
    ms_chunk,          \* the lines of the last read
    ms_emitted,        \* SpotreadRes(Some) sent: the DoReading handled and
                       \* the DoReading whose trigger produced the line
    ms_trig,           \* trigger newlines written for the current DoReading
    ms_since,          \* a prompt line was read since the last trigger
    ms_n,              \* DoReading commands taken
    \* the app measuring the patches of its list
    ap_started,        \* internal_gen.started
    ap_auto,           \* internal_gen.auto_advance
    ap_cont,           \* internal_gen.read_selected_continuously
    ap_sel,            \* internal_gen.selected_idx (0: None)
    ap_res,            \* per patch, the patch whose colour its stored
                       \* result was measured on (0: no result)
    ap_processing,     \* PGenApp.processing
    ap_rx,             \* the app's channel of PGenAppUpdate
    ap_extq,           \* the job worker's channel
    ap_ctlq,           \* the controller's channel
    ap_drvq,           \* the driver's channel: patches to read
    ap_drv,            \* the patch the driver is measuring (0: idle)
    ap_n,              \* clicks on the two measure buttons
    \* the job worker and the subprocesses it starts
    pr_tx,             \* spotread_tx: the driver whose sender is held (0: None)
    pr_st,             \* per driver: "none", "running", "ended"
    pr_q,              \* per driver: its command channel
    pr_child,          \* per driver: its child process is alive
    pr_started,        \* the last SpotreadStarted sent to the app
    pr_stopped,        \* the last start or stop request handled was a stop
    pr_made,           \* drivers created
    pr_n,              \* requests the job worker has handled
    \* the TCP generator client
    gc_task,           \* the client task: "none", "running", "ended"
    gc_running,        \* TcpGeneratorClient.running
    gc_stream,         \* the stream: "open" (nothing to read), "data",
                       \* "eof", "reset"
    gc_q,              \* the client's command channel
    gc_tx,             \* the job worker holds gen_client_tx
    gc_extq,           \* the job worker's channel
    gc_listening,      \* the app's generator_state.listening
    gc_n,              \* clicks on the generator client button
    \* the controller, its PGenerator client and the GUI's copy of the state
    cl_stream,         \* PGenClient.stream is Some
    cl_connected,      \* PGenClient.connect_state.connected
    ct_connected,      \* PGenController.state.connected_state.connected
    ct_lost,           \* the last response that handle_pgen_response wrote
                       \* to the flag found the device disconnected
    ct_q,              \* the controller's command channel (controller_rx)
    ct_appq,           \* the app's channel, as far as the controller fills it
    gui_connected,     \* PGenApp.state.connected_state.connected
    gui_processing,    \* PGenApp.processing
    ct_n,              \* commands the GUI has sent
    ct_ticks,          \* heartbeat and reconnect ticks so far
    \* the colour picker
    sc_c,              \* the 8 bit component picked last
    sc_depth,          \* the bit depth it was scaled to
    sc_limited,        \* pattern_config.limited_range at that time
    sc_out             \* the component stored in the pattern configuration

driverVars == <<pc, can_take_reading, rxq, cur, stdout, stderr, child,
                events, spotread_tx, jw, startRes, interactive, displayed,
                doneMeasuring, nOut, nErr, nSent, m, hist, exitLog, diagRead,
                nStop, promptSeen, nDoneProcessing, exitStatus>>

targetVars == <<cal_state, external_q, cmd_q, handling, issued, results>>

patternVars == <<ctl_patch, display, pstep, pcmd, nPat>>

timeoutVars == <<tstate, elapsed, nTimed>>

parseVars == <<line, out>>

refVars == <<cfg, list, ref_rgb>>

gammaVars == <<reading, gamma_out, readings, avg_gamma>>

cctVars == <<xyz, cct_out>>

tfVars == <<tf_in, val_out, bpc_out>>

doviVars == <<pattern_config, dovi, dv_req, dv_sent, dv_last>>

jobVars == <<ext_q, job_tx, drv, drv_q, processing, nJobs>>

measVars == <<ms_pc, ms_cur, ms_flag, ms_out, ms_todo, ms_chunk, ms_emitted,
              ms_trig, ms_since, ms_n>>

appVars == <<ap_started, ap_auto, ap_cont, ap_sel, ap_res, ap_processing,
             ap_rx, ap_extq, ap_ctlq, ap_drvq, ap_drv, ap_n>>

procVars == <<pr_tx, pr_st, pr_q, pr_child, pr_started, pr_stopped, pr_made,
              pr_n>>

genVars == <<gc_task, gc_running, gc_stream, gc_q, gc_tx, gc_extq,
             gc_listening, gc_n>>

ctlVars == <<cl_stream, cl_connected, ct_connected, ct_lost, ct_q, ct_appq,
             gui_connected, gui_processing, ct_n, ct_ticks>>

scaleVars == <<sc_c, sc_depth, sc_limited, sc_out>>

vars == <<driverVars, targetVars, patternVars, timeoutVars, parseVars,
          refVars, gammaVars, cctVars, tfVars, doviVars, jobVars, measVars,
          appVars, procVars, genVars, ctlVars, scaleVars>>

\* ------------------------------------------------------------------ events
SpotreadStarted(b) == [t |-> "SpotreadStarted", ok |-> b, id |-> 0]

SpotreadResSome(i) == [t |-> "SpotreadRes", ok |-> TRUE, id |-> i]

SpotreadResNone == [t |-> "SpotreadRes", ok |-> FALSE, id |-> 0]

DoReading(i) == [c |-> "DoReading", id |-> i]

ExitCmd == [c |-> "Exit", id |-> 0]

\* Bookkeeping of one DoReading: unsynced (taken with can_take_reading unset),
\* trig (trigger newlines written to stdin), some / none (SpotreadRes events
\* sent), endSeen (a result or failure line was read by the result loop),
\* how (how its handling ended: "ok", "err", "writeerr", "timeout"),
\* diagInFlight (a Diagnostic line arrived on stderr while it was handled).
NoMeasure == [unsynced |-> FALSE, trig |-> 0, some |-> 0, none |-> 0,
              endSeen |-> FALSE, how |-> "none", diagInFlight |-> FALSE]

\* No DoReading is being handled.
NoCmd == [req |-> 0, target |-> 0]

\* Patch colours; PGenPatternConfig::default() has patch_colour
\* [128, 128, 128].
Colours == {"grey128", "black", "white"}

DefaultPatch == "grey128"

NoLine == [lead |-> "", xyz |-> <<>>, lab |-> <<>>, trail |-> ""]

NoOut == [t |-> "pending", xyz |-> <<>>, lab |-> <<>>]

\* The driver and the job worker before the start request.
DriverInit ==
    /\ pc = "NotStarted"
    /\ can_take_reading = FALSE
    /\ rxq = <<>>
    /\ cur = 0
    /\ stdout = <<>>
    /\ stderr = <<>>
    /\ child = "none"
    /\ events = <<>>
    /\ spotread_tx = FALSE
    /\ jw = "idle"
    /\ startRes = "pending"
    /\ interactive = FALSE
    /\ displayed = 0
    /\ doneMeasuring = 0
    /\ nOut = 0
    /\ nErr = 0
    /\ nSent = 0
    /\ m = NoMeasure
    /\ hist = <<>>
    /\ exitLog = <<>>
    /\ diagRead = FALSE
    /\ nStop = 0
    /\ promptSeen = FALSE
    /\ nDoneProcessing = 0
    /\ exitStatus = "none"

TargetInit ==
    /\ cal_state = 1
    /\ external_q = <<>>
    /\ cmd_q = <<>>
    /\ handling = NoCmd
    /\ issued = <<>>
    /\ results = <<>>

\* Nothing has been sent to the display; the controller holds the default
\* pattern configuration.
PatternInit ==
    /\ ctl_patch = DefaultPatch
    /\ display = "none"
    /\ pstep = "idle"
    /\ pcmd = DefaultPatch
    /\ nPat = 0

TimeoutInit ==
    /\ tstate = "idle"
    /\ elapsed = 0
    /\ nTimed = 0

\* No line has been handed to the driver's result loop.
ParseInit ==
    /\ line = NoLine
    /\ out = NoOut

\* No target has been built.
NoRef == [st |-> "none", num |-> 0, den |-> 1]

\* PGenPatternConfig::default(): full range, 10 bit; no patch list loaded.
RefInit ==
    /\ cfg = [limited_range |-> FALSE, bit_depth |-> 10]
    /\ list = <<>>
    /\ ref_rgb = NoRef

\* gamma() / results_average_gamma not called yet.
NoGamma == [t |-> "pending", v |-> 0]

NoAverage == [t |-> "pending", num |-> 0, den |-> 1]

GammaInit ==
    /\ reading = [ref_rgb |-> <<0, 0, 0>>, g |-> 0]
    /\ gamma_out = NoGamma
    /\ readings = <<>>
    /\ avg_gamma = NoAverage

CctInit ==
    /\ xyz = <<0, 0, 0>>
    /\ cct_out = [t |-> "pending"]

TfInit ==
    /\ tf_in = [eotf |-> "Gamma22", min |-> 0, v |-> 0, oetf |-> FALSE,
                linear_min |-> FALSE]
    /\ val_out = [n |-> 0, d |-> -1]
    /\ bpc_out = [n |-> 0, d |-> -1]

\* PGenPatternConfig::default()
DefaultPatternConfig ==
    [bit_depth |-> 10, limited_range |-> FALSE,
     patch_colour |-> <<128, 128, 128>>, background_colour |-> <<0, 0, 0>>]

DoviInit ==
    /\ pattern_config = DefaultPatternConfig
    /\ dovi = FALSE
    /\ dv_req = DefaultPatternConfig
    /\ dv_sent = DefaultPatternConfig
    /\ dv_last = "none"

JobInit ==
    /\ ext_q = <<>>
    /\ job_tx = FALSE
    /\ drv = "none"
    /\ drv_q = <<>>
    /\ processing = FALSE
    /\ nJobs = 0

\* After the handshake: the tool is about to print its first prompt.
MeasInit ==
    /\ ms_pc = "Idle"
    /\ ms_cur = 0
    /\ ms_flag = FALSE
    /\ ms_out = <<>>
    /\ ms_todo = <<[k |-> "prompt", of |-> 0]>>
    /\ ms_chunk = <<>>
    /\ ms_emitted = <<>>
    /\ ms_trig = 0
    /\ ms_since = FALSE
    /\ ms_n = 0

\* PGenApp::new with a patch list loaded, nothing selected or measured.
AppInit ==
    /\ ap_started = FALSE
    /\ ap_auto = FALSE
    /\ ap_cont = FALSE
    /\ ap_sel = 0
    /\ ap_res = [i \in 1..MaxPatches |-> 0]
    /\ ap_processing = FALSE
    /\ ap_rx = <<>>
    /\ ap_extq = <<>>
    /\ ap_ctlq = <<>>
    /\ ap_drvq = <<>>
    /\ ap_drv = 0
    /\ ap_n = 0

\* The job worker before its first command: spotread_tx = None.
ProcInit ==
    /\ pr_tx = 0
    /\ pr_st = [d \in 1..MaxProcs |-> "none"]
    /\ pr_q = [d \in 1..MaxProcs |-> <<>>]
    /\ pr_child = [d \in 1..MaxProcs |-> FALSE]
    /\ pr_started = FALSE
    /\ pr_stopped = FALSE
    /\ pr_made = 0
    /\ pr_n = 0

\* No generator client has been started: gen_client_tx = None.
GenInit ==
    /\ gc_task = "none"
    /\ gc_running = FALSE
    /\ gc_stream = "open"
    /\ gc_q = <<>>
    /\ gc_tx = FALSE
    /\ gc_extq = <<>>
    /\ gc_listening = FALSE
    /\ gc_n = 0

\* PGenClient::new holds no stream, ConnectState and the controller's and
\* the app's PGenControllerState are the defaults: not connected.
CtlInit ==
    /\ cl_stream = FALSE
    /\ cl_connected = FALSE
    /\ ct_connected = FALSE
    /\ ct_lost = FALSE
    /\ ct_q = <<>>
    /\ ct_appq = <<>>
    /\ gui_connected = FALSE
    /\ gui_processing = FALSE
    /\ ct_n = 0
    /\ ct_ticks = 0

\* PGenPatternConfig::default: black, 8 bit, full range.
ScaleInit ==
    /\ sc_c = 0
    /\ sc_depth = 8
    /\ sc_limited = FALSE
    /\ sc_out = 0

Init ==
    /\ DriverInit
    /\ TargetInit
    /\ PatternInit
    /\ TimeoutInit
    /\ ParseInit
    /\ RefInit
    /\ GammaInit
    /\ CctInit
    /\ TfInit
    /\ DoviInit
    /\ JobInit
    /\ MeasInit
    /\ AppInit
    /\ ProcInit
    /\ GenInit
    /\ CtlInit
    /\ ScaleInit

\* ------------------------------------------------------------- the tool
InFlight == pc \in {"Pattern", "TryMeasure", "MeasureSync", "MeasureRead"}

\* The child prints a line on stdout.
ToolPrint ==
    /\ child = "running"
    /\ nOut < MaxOut
    /\ \E l \in LineKinds : stdout' = Append(stdout, l)
    /\ nOut' = nOut + 1
    /\ UNCHANGED <<pc, can_take_reading, rxq, cur, stderr, child, events,
                   spotread_tx, jw, startRes, interactive, displayed,
                   doneMeasuring, nErr, nSent, m, hist, exitLog, diagRead,
                   nStop, promptSeen, nDoneProcessing, exitStatus, targetVars,
                   patternVars, timeoutVars, parseVars, refVars, gammaVars,
                   cctVars, tfVars, doviVars, jobVars, measVars, appVars,
                   procVars, genVars, ctlVars, scaleVars>>

\* The child prints a line on stderr.
ToolErrPrint ==
    /\ child = "running"
    /\ nErr < MaxErr
    /\ \E l \in ErrKinds :
          /\ stderr' = Append(stderr, l)
          /\ m' = IF StartsWithDiagnostic(l) /\ InFlight
                  THEN [m EXCEPT !.diagInFlight = TRUE] ELSE m
    /\ nErr' = nErr + 1
    /\ UNCHANGED <<pc, can_take_reading, rxq, cur, stdout, child, events,
                   spotread_tx, jw, startRes, interactive, displayed,
                   doneMeasuring, nOut, nSent, hist, exitLog, diagRead, nStop,
                   promptSeen, nDoneProcessing, exitStatus, targetVars,
                   patternVars, timeoutVars, parseVars, refVars, gammaVars,
                   cctVars, tfVars, doviVars, jobVars, measVars, appVars,
                   procVars, genVars, ctlVars, scaleVars>>

\* The child ends by itself (after its quit keystrokes, after an error, or by
\* crashing); what it printed stays readable, its end of stdin is closed.
ToolExit ==
    /\ child = "running"
    /\ child' = "exited"
    /\ UNCHANGED <<pc, can_take_reading, rxq, cur, stdout, stderr, events,
                   spotread_tx, jw, startRes, interactive, displayed,
                   doneMeasuring, nOut, nErr, nSent, m, hist, exitLog,
                   diagRead, nStop, promptSeen, nDoneProcessing, exitStatus,
                   targetVars, patternVars, timeoutVars, parseVars, refVars,
                   gammaVars, cctVars, tfVars, doviVars, jobVars, measVars,
                   appVars, procVars, genVars, ctlVars, scaleVars>>

\* A write to the child's stdin followed by flush succeeds while the child
\* holds the read end of the pipe.
WriteOk == child = "running"

\* ------------------------------------------------------- the job worker
\* ExternalJobCmd::StartSpotreadProcess: the worker enters
\* start_spotread_worker, which spawns the child (SpotreadProc::new).
StartSpotreadProcess ==
    /\ jw = "idle"
    /\ pc = "NotStarted"
    /\ jw' = "starting"
    /\ \/ /\ pc' = "Handshake"          \* spawn and the three handles succeed
          /\ child' = "running"
          /\ UNCHANGED startRes
       \/ /\ pc' = "StartFailed"        \* spawn()? or a missing handle
          /\ startRes' = "err"
          /\ UNCHANGED child
    /\ UNCHANGED <<can_take_reading, rxq, cur, stdout, stderr, events,
                   spotread_tx, interactive, displayed, doneMeasuring, nOut,
                   nErr, nSent, m, hist, exitLog, diagRead, nStop, promptSeen,
                   nDoneProcessing, exitStatus, targetVars, patternVars,
                   timeoutVars, parseVars, refVars, gammaVars, cctVars,
                   tfVars, doviVars, jobVars, measVars, appVars, procVars,
                   genVars, ctlVars, scaleVars>>

\* Fault injection in StartReturned: the sender is kept and the start announced
\* whatever the start call returned.
StartReturnedKeepsSender ==
    /\ jw = "starting"
    /\ startRes # "pending"
    /\ jw' = "idle"
    /\ spotread_tx' = TRUE
    /\ events' = Append(events, SpotreadStarted(TRUE))
    /\ nDoneProcessing' = nDoneProcessing + 1
    /\ UNCHANGED <<pc, can_take_reading, rxq, cur, stdout, stderr, child,
                   startRes, interactive, displayed, doneMeasuring, nOut,
                   nErr, nSent, m, hist, exitLog, diagRead, nStop, promptSeen,
                   exitStatus, targetVars, patternVars, timeoutVars,
                   parseVars, refVars, gammaVars, cctVars, tfVars, doviVars,
                   jobVars, measVars, appVars, procVars, genVars, ctlVars,
                   scaleVars>>

\* The start call has returned to the job worker: Ok(tx) is kept and
\* SpotreadStarted(true) sent, Err(e) is logged; DoneProcessing either way.
StartReturned ==
    /\ jw = "starting"
    /\ startRes # "pending"
    /\ jw' = "idle"
    /\ IF startRes = "ok"
       THEN /\ spotread_tx' = TRUE
            /\ events' = Append(events, SpotreadStarted(TRUE))
       ELSE UNCHANGED <<spotread_tx, events>>
    /\ nDoneProcessing' = nDoneProcessing + 1
    /\ UNCHANGED <<pc, can_take_reading, rxq, cur, stdout, stderr, child,
                   startRes, interactive, displayed, doneMeasuring, nOut,
                   nErr, nSent, m, hist, exitLog, diagRead, nStop, promptSeen,
                   exitStatus, targetVars, patternVars, timeoutVars,
                   parseVars, refVars, gammaVars, cctVars, tfVars, doviVars,
                   jobVars, measVars, appVars, procVars, genVars, ctlVars,
                   scaleVars>>

\* try_send on the driver's command channel: refused when the channel is
\* full or the receiver is gone.
TrySend(q, c) ==
    IF Len(q) < ChannelCap /\ pc # "Terminated" THEN Append(q, c) ELSE q

\* ExternalJobCmd::SpotreadMeasure: forwarded if a sender is held (the
\* requests are numbered in the order they are forwarded).
SpotreadMeasure ==
    /\ jw = "idle"
    /\ nSent < MaxCmds
    /\ IF spotread_tx
       THEN /\ rxq' = TrySend(rxq, DoReading(nSent + 1))
            /\ nSent' = nSent + 1
       ELSE UNCHANGED <<rxq, nSent>>
    /\ UNCHANGED <<pc, can_take_reading, cur, stdout, stderr, child, events,
                   spotread_tx, jw, startRes, interactive, displayed,
                   doneMeasuring, nOut, nErr, m, hist, exitLog, diagRead,
                   nStop, promptSeen, nDoneProcessing, exitStatus, targetVars,
                   patternVars, timeoutVars, parseVars, refVars, gammaVars,
                   cctVars, tfVars, doviVars, jobVars, measVars, appVars,
                   procVars, genVars, ctlVars, scaleVars>>

\* ExternalJobCmd::StopSpotreadProcess: Exit is forwarded if a sender is held,
\* SpotreadStarted(false) sent otherwise; DoneProcessing either way.
StopSpotreadProcess ==
    /\ jw = "idle"
    /\ nStop < MaxStops
    /\ nStop' = nStop + 1
    /\ nDoneProcessing' = nDoneProcessing + 1
    /\ IF spotread_tx
       THEN /\ spotread_tx' = FALSE
            /\ rxq' = TrySend(rxq, ExitCmd)
            /\ UNCHANGED events
       ELSE /\ events' = Append(events, SpotreadStarted(FALSE))
            /\ UNCHANGED <<spotread_tx, rxq>>
    /\ UNCHANGED <<pc, can_take_reading, cur, stdout, stderr, child, jw,
                   startRes, interactive, displayed, doneMeasuring, nOut,
                   nErr, nSent, m, hist, exitLog, diagRead, promptSeen,
                   exitStatus, targetVars, patternVars, timeoutVars,
                   parseVars, refVars, gammaVars, cctVars, tfVars, doviVars,
                   jobVars, measVars, appVars, procVars, genVars, ctlVars,
                   scaleVars>>

\* ---------------------------------------------------------------- exit
\* Fault injection in ExitStart: the flag is ignored.
ExitStartAlwaysInteractive(flag) == "ExitQ1"

\* exit(interactive): with the flag the quit keystrokes come first, without
\* it the function goes straight to child.wait().
ExitStart(flag) == IF flag THEN "ExitQ1" ELSE "ExitWait"

\* Fault injection in DiagnosticRead: the line is logged and the loop goes on.
DiagnosticReadNoExit ==
    /\ diagRead' = TRUE
    /\ UNCHANGED <<interactive, pc>>

\* A stderr line that starts with "Diagnostic" was read: exit_logged(false).
DiagnosticRead ==
    /\ diagRead' = TRUE
    /\ interactive' = FALSE
    /\ pc' = ExitStart(FALSE)

\* ------------------------------------------------------------ handshake
\* select! branch on err_lines.next_line() in the start call.
HandshakeErrLine ==
    /\ pc = "Handshake"
    /\ stderr # <<>>
    /\ stderr' = Tail(stderr)
    /\ IF StartsWithDiagnostic(Head(stderr))
       THEN DiagnosticRead
       ELSE UNCHANGED <<diagRead, interactive, pc>>
    /\ UNCHANGED <<can_take_reading, rxq, cur, stdout, child, events,
                   spotread_tx, jw, startRes, displayed, doneMeasuring, nOut,
                   nErr, nSent, m, hist, exitLog, nStop, promptSeen,
                   nDoneProcessing, exitStatus, targetVars, patternVars,
                   timeoutVars, parseVars, refVars, gammaVars, cctVars,
                   tfVars, doviVars, jobVars, measVars, appVars, procVars,
                   genVars, ctlVars, scaleVars>>

\* select! branch on reader.read_u8(): Ok(_) => break.  One byte is taken
\* from stdout; the line it belonged to stays in the pipe without it (or
\* unchanged when the byte was white space in front of the line).  The
\* driver task is spawned and the start call returns Ok(tx).
HandshakeReadByte ==
    /\ pc = "Handshake"
    /\ stdout # <<>>
    /\ \E l \in {Head(stdout), Beheaded(Head(stdout))} :
          stdout' = <<l>> \o Tail(stdout)
    /\ pc' = "Idle"
    /\ startRes' = "ok"
    /\ UNCHANGED <<can_take_reading, rxq, cur, stderr, child, events,
                   spotread_tx, jw, interactive, displayed, doneMeasuring,
                   nOut, nErr, nSent, m, hist, exitLog, diagRead, nStop,
                   promptSeen, nDoneProcessing, exitStatus, targetVars,
                   patternVars, timeoutVars, parseVars, refVars, gammaVars,
                   cctVars, tfVars, doviVars, jobVars, measVars, appVars,
                   procVars, genVars, ctlVars, scaleVars>>

\* Fault injection in HandshakeReadErr: a read error ends the handshake like a byte.
HandshakeReadErrBreaks ==
    /\ pc = "Handshake"
    /\ stdout = <<>>
    /\ child = "exited"
    /\ pc' = "Idle"
    /\ startRes' = "ok"
    /\ UNCHANGED <<can_take_reading, rxq, cur, stdout, stderr, child, events,
                   spotread_tx, jw, interactive, displayed, doneMeasuring,
                   nOut, nErr, nSent, m, hist, exitLog, diagRead, nStop,
                   promptSeen, nDoneProcessing, exitStatus, targetVars,
                   patternVars, timeoutVars, parseVars, refVars, gammaVars,
                   cctVars, tfVars, doviVars, jobVars, measVars, appVars,
                   procVars, genVars, ctlVars, scaleVars>>

\* select! branch on reader.read_u8(): Err(e) => sleep 1 s, continue.
\* read_u8 fails at end of file, i.e. once the child is gone and the pipe is
\* empty.
HandshakeReadErr ==
    /\ pc = "Handshake"
    /\ stdout = <<>>
    /\ child = "exited"
    /\ UNCHANGED vars

\* ------------------------------------------------------------- reading
\* One read() on stdout (read_stdout_lines): a non-empty prefix of what the
\* tool has printed so far, or nothing at end of file (Ok(None)).
CanReadChunk == stdout # <<>> \/ child = "exited"

ChunkSizes == IF stdout # <<>> THEN 1..Len(stdout) ELSE {0}

Chunk(k) == SubSeq(stdout, 1, k)

Rest(k) == SubSeq(stdout, k + 1, Len(stdout))

\* The for loop of try_measure over the lines of one chunk.  acc.somes counts
\* the SpotreadRes(Some) sent, acc.bad is the early return of
\* ReadingResult::new(..)?, acc.err the recorded "Spot read failed" line,
\* acc.flag the value of can_take_reading.
RECURSIVE ProcessLines(_, _)
ProcessLines(lines, acc) ==
    IF lines = <<>> \/ acc.bad THEN acc
    ELSE LET l == Head(lines) IN
         ProcessLines(Tail(lines),
            IF StartsWithResult(l)
            THEN IF ParsesOk(l)
                 THEN [acc EXCEPT !.somes = @ + 1, !.endSeen = TRUE]
                 ELSE [acc EXCEPT !.bad = TRUE, !.endSeen = TRUE]
            ELSE IF StartsWithFailed(l)
            THEN [acc EXCEPT !.err = TRUE, !.endSeen = TRUE]
            ELSE IF ContainsPrompt(l)
            THEN [acc EXCEPT !.flag = TRUE]
            ELSE acc)

AnyPrompt(lines) == \E i \in 1..Len(lines) : ContainsPrompt(lines[i])

Somes(n, i) == [j \in 1..n |-> SpotreadResSome(i)]

\* The end of the DoReading arm: the SpotreadRes(Some) sent by try_measure,
\* SpotreadRes(None) unless try_measure returned Ok(()) in time, then
\* SpotreadDoneMeasuring to the job worker; back to the select!.
FinishReading(nsomes, success, how, seen) ==
    /\ events' = events \o Somes(nsomes, cur)
                        \o (IF success THEN <<>> ELSE <<SpotreadResNone>>)
    /\ m' = [m EXCEPT !.some = nsomes,
                      !.none = IF success THEN 0 ELSE 1,
                      !.how = how,
                      !.endSeen = seen]
    /\ hist' = [hist EXCEPT ![Len(hist)].how = how]
    /\ doneMeasuring' = doneMeasuring + 1
    /\ cur' = 0
    /\ pc' = "Idle"

\* --------------------------------------------------------- command loop
\* Fault injection in LoopAtSelect: the select! is also polled while an arm runs.
LoopAtSelectPreempting == pc = "Idle" \/ InFlight

\* The spawned task is at the select! of its loop: no arm is running.
LoopAtSelect == pc = "Idle"

\* select! branch on err_lines.next_line() in the spawned task.
LoopErrLine ==
    /\ LoopAtSelect
    /\ stderr # <<>>
    /\ stderr' = Tail(stderr)
    /\ IF StartsWithDiagnostic(Head(stderr))
       THEN DiagnosticRead
       ELSE UNCHANGED <<diagRead, interactive, pc>>
    /\ UNCHANGED <<can_take_reading, rxq, cur, stdout, child, events,
                   spotread_tx, jw, startRes, displayed, doneMeasuring, nOut,
                   nErr, nSent, m, hist, exitLog, nStop, promptSeen,
                   nDoneProcessing, exitStatus, targetVars, patternVars,
                   timeoutVars, parseVars, refVars, gammaVars, cctVars,
                   tfVars, doviVars, jobVars, measVars, appVars, procVars,
                   genVars, ctlVars, scaleVars>>

\* select! branch on rx.select_next_some(): the oldest queued command.
TakeCmd ==
    /\ LoopAtSelect
    /\ rxq # <<>>
    /\ LET cmd == Head(rxq) IN
       /\ rxq' = Tail(rxq)
       /\ hist' = Append(hist, [c |-> cmd.c, id |-> cmd.id, how |-> "none"])
       /\ IF cmd.c = "DoReading"
          THEN /\ pc' = "Pattern"
               /\ cur' = cmd.id
               /\ m' = [NoMeasure EXCEPT !.unsynced = ~can_take_reading]
               /\ UNCHANGED interactive
          ELSE /\ pc' = ExitStart(TRUE)    \* exit_logged(true)
               /\ interactive' = TRUE
               /\ UNCHANGED <<cur, m>>
    /\ UNCHANGED <<can_take_reading, stdout, stderr, child, events,
                   spotread_tx, jw, startRes, displayed, doneMeasuring, nOut,
                   nErr, nSent, exitLog, diagRead, nStop, promptSeen,
                   nDoneProcessing, exitStatus, targetVars, patternVars,
                   timeoutVars, parseVars, refVars, gammaVars, cctVars,
                   tfVars, doviVars, jobVars, measVars, appVars, procVars,
                   genVars, ctlVars, scaleVars>>

\* controller.send_pattern_and_wait(config): the patch is on the display and
\* the settle wait is over when this returns.
SendPatternAndWait ==
    /\ pc = "Pattern"
    /\ displayed' = cur
    /\ pc' = "TryMeasure"
    /\ UNCHANGED <<can_take_reading, rxq, cur, stdout, stderr, child, events,
                   spotread_tx, jw, startRes, interactive, doneMeasuring,
                   nOut, nErr, nSent, m, hist, exitLog, diagRead, nStop,
                   promptSeen, nDoneProcessing, exitStatus, targetVars,
                   patternVars, timeoutVars, parseVars, refVars, gammaVars,
                   cctVars, tfVars, doviVars, jobVars, measVars, appVars,
                   procVars, genVars, ctlVars, scaleVars>>

\* try_measure, up to its first read: with can_take_reading set the flag is
\* cleared and the trigger newline written; otherwise stdout is read first.
TryMeasureBegin ==
    /\ pc = "TryMeasure"
    /\ IF can_take_reading
       THEN /\ can_take_reading' = FALSE
            /\ IF WriteOk
               THEN /\ m' = [m EXCEPT !.trig = @ + 1]    \* "\n" written
                    /\ pc' = "MeasureRead"
                    /\ UNCHANGED <<events, hist, doneMeasuring, cur>>
               ELSE FinishReading(0, FALSE, "writeerr", FALSE)
       ELSE /\ pc' = "MeasureSync"
            /\ UNCHANGED <<can_take_reading, m, events, hist, doneMeasuring,
                           cur>>
    /\ UNCHANGED <<rxq, stdout, stderr, child, spotread_tx, jw, startRes,
                   interactive, displayed, nOut, nErr, nSent, exitLog,
                   diagRead, nStop, promptSeen, nDoneProcessing, exitStatus,
                   targetVars, patternVars, timeoutVars, parseVars, refVars,
                   gammaVars, cctVars, tfVars, doviVars, jobVars, measVars,
                   appVars, procVars, genVars, ctlVars, scaleVars>>

\* "Flush stdout until we can read": one chunk; the trigger newline is
\* written if one of its lines contains the prompt.
MeasureSyncRead ==
    /\ pc = "MeasureSync"
    /\ CanReadChunk
    /\ \E k \in ChunkSizes :
          /\ stdout' = Rest(k)
          /\ promptSeen' = (promptSeen \/ AnyPrompt(Chunk(k)))
          /\ IF AnyPrompt(Chunk(k))
             THEN IF WriteOk
                  THEN /\ m' = [m EXCEPT !.trig = @ + 1]    \* "\n" written
                       /\ pc' = "MeasureRead"
                       /\ UNCHANGED <<events, hist, doneMeasuring, cur>>
                  ELSE FinishReading(0, FALSE, "writeerr", FALSE)
             ELSE /\ pc' = "MeasureRead"
                  /\ UNCHANGED <<m, events, hist, doneMeasuring, cur>>
    /\ UNCHANGED <<can_take_reading, rxq, stderr, child, spotread_tx, jw,
                   startRes, interactive, displayed, nOut, nErr, nSent,
                   exitLog, diagRead, nStop, nDoneProcessing, exitStatus,
                   targetVars, patternVars, timeoutVars, parseVars, refVars,
                   gammaVars, cctVars, tfVars, doviVars, jobVars, measVars,
                   appVars, procVars, genVars, ctlVars, scaleVars>>

\* Fault injection in Success: a failed parse is not counted as a failure.
SuccessIgnoresParse(r) == ~r.err

\* success of the DoReading arm when try_measure returned in time: Ok(())
\* only; Err comes from ReadingResult::new(..)? or from the recorded
\* "Spot read failed" line.
Success(r) == ~r.bad /\ ~r.err

\* "Read result and rest of stdout buffer": one chunk, every line of it
\* handled by the for loop, then Err(..) or Ok(()).
MeasureResultRead ==
    /\ pc = "MeasureRead"
    /\ CanReadChunk
    /\ \E k \in ChunkSizes :
          LET r == ProcessLines(Chunk(k),
                      [somes |-> 0, err |-> FALSE, bad |-> FALSE,
                       flag |-> can_take_reading, endSeen |-> FALSE])
          IN /\ stdout' = Rest(k)
             /\ promptSeen' = (promptSeen \/ AnyPrompt(Chunk(k)))
             /\ can_take_reading' = r.flag
             /\ FinishReading(r.somes, Success(r),
                              IF r.bad THEN "bad"
                              ELSE IF r.err THEN "err" ELSE "ok",
                              r.endSeen)
    /\ UNCHANGED <<rxq, stderr, child, spotread_tx, jw, startRes, interactive,
                   displayed, nOut, nErr, nSent, exitLog, diagRead, nStop,
                   nDoneProcessing, exitStatus, targetVars, patternVars,
                   timeoutVars, parseVars, refVars, gammaVars, cctVars,
                   tfVars, doviVars, jobVars, measVars, appVars, procVars,
                   genVars, ctlVars, scaleVars>>

\* Fault injection in MeasureTimeout: the timeout tears the process down.
MeasureTimeoutTearsDown ==
    /\ pc \in {"MeasureSync", "MeasureRead"}
    /\ events' = Append(events, SpotreadResNone)
    /\ m' = [m EXCEPT !.none = 1, !.how = "timeout"]
    /\ hist' = [hist EXCEPT ![Len(hist)].how = "timeout"]
    /\ doneMeasuring' = doneMeasuring + 1
    /\ cur' = 0
    /\ child' = IF child = "running" THEN "killed" ELSE child
    /\ pc' = "Terminated"
    /\ UNCHANGED <<can_take_reading, rxq, stdout, stderr, spotread_tx, jw,
                   startRes, interactive, displayed, nOut, nErr, nSent,
                   exitLog, diagRead, nStop, promptSeen, nDoneProcessing,
                   exitStatus, targetVars, patternVars, timeoutVars,
                   parseVars, refVars, gammaVars, cctVars, tfVars, doviVars,
                   jobVars, measVars, appVars, procVars, genVars, ctlVars,
                   scaleVars>>

\* tokio::time::timeout(.., try_measure) elapses while try_measure waits in
\* one of its reads: the future is dropped, nothing else is touched.
MeasureTimeout ==
    /\ pc \in {"MeasureSync", "MeasureRead"}
    /\ FinishReading(0, FALSE, "timeout", FALSE)
    /\ UNCHANGED <<can_take_reading, rxq, stdout, stderr, child, spotread_tx,
                   jw, startRes, interactive, displayed, nOut, nErr, nSent,
                   exitLog, diagRead, nStop, promptSeen, nDoneProcessing,
                   exitStatus, targetVars, patternVars, timeoutVars,
                   parseVars, refVars, gammaVars, cctVars, tfVars, doviVars,
                   jobVars, measVars, appVars, procVars, genVars, ctlVars,
                   scaleVars>>

\* ------------------------------------------------------- end of exit
\* What follows exit_logged(..) at its three call sites: SpotreadStarted(false)
\* is sent; in the start call the error is returned (bail!), in the spawned
\* task the loop is left (break) and the task ends, which drops the receiver.
\* exit() consumes the SpotreadProc: its pipes are closed, and a child that
\* was not waited for is killed when it is dropped (kill_on_drop).
ExitEnds(waited) ==
    /\ events' = Append(events, SpotreadStarted(FALSE))
    /\ IF startRes = "pending"
       THEN /\ pc' = "StartFailed"
            /\ startRes' = "err"
       ELSE /\ pc' = "Terminated"
            /\ UNCHANGED startRes
    /\ child' = IF waited THEN "reaped"
                ELSE IF child = "running" THEN "killed" ELSE child
    /\ rxq' = <<>>
    /\ stdout' = <<>>
    /\ stderr' = <<>>
    /\ hist' = IF interactive
               THEN [hist EXCEPT ![Len(hist)].how = "exit"] ELSE hist

\* exit(true): write "q\r\n" and flush; a failed write returns the error.
ExitWriteQ1 ==
    /\ pc = "ExitQ1"
    /\ IF WriteOk
       THEN /\ exitLog' = Append(exitLog, "q")
            /\ pc' = "ExitSleep"
            /\ UNCHANGED <<events, startRes, child, rxq, stdout, stderr, hist>>
       ELSE /\ ExitEnds(FALSE)
            /\ UNCHANGED exitLog
    /\ UNCHANGED <<can_take_reading, cur, spotread_tx, jw, interactive,
                   displayed, doneMeasuring, nOut, nErr, nSent, m, diagRead,
                   nStop, promptSeen, nDoneProcessing, exitStatus, targetVars,
                   patternVars, timeoutVars, parseVars, refVars, gammaVars,
                   cctVars, tfVars, doviVars, jobVars, measVars, appVars,
                   procVars, genVars, ctlVars, scaleVars>>

\* exit(true): sleep(500 ms)
ExitSleep ==
    /\ pc = "ExitSleep"
    /\ exitLog' = Append(exitLog, "sleep")
    /\ pc' = "ExitQ2"
    /\ UNCHANGED <<can_take_reading, rxq, cur, stdout, stderr, child, events,
                   spotread_tx, jw, startRes, interactive, displayed,
                   doneMeasuring, nOut, nErr, nSent, m, hist, diagRead, nStop,
                   promptSeen, nDoneProcessing, exitStatus, targetVars,
                   patternVars, timeoutVars, parseVars, refVars, gammaVars,
                   cctVars, tfVars, doviVars, jobVars, measVars, appVars,
                   procVars, genVars, ctlVars, scaleVars>>

\* exit(true): write "q\r\n" a second time and flush.
ExitWriteQ2 ==
    /\ pc = "ExitQ2"
    /\ IF WriteOk
       THEN /\ exitLog' = Append(exitLog, "q")
            /\ pc' = "ExitDrain"
            /\ UNCHANGED <<events, startRes, child, rxq, stdout, stderr, hist>>
       ELSE /\ ExitEnds(FALSE)
            /\ UNCHANGED exitLog
    /\ UNCHANGED <<can_take_reading, cur, spotread_tx, jw, interactive,
                   displayed, doneMeasuring, nOut, nErr, nSent, m, diagRead,
                   nStop, promptSeen, nDoneProcessing, exitStatus, targetVars,
                   patternVars, timeoutVars, parseVars, refVars, gammaVars,
                   cctVars, tfVars, doviVars, jobVars, measVars, appVars,
                   procVars, genVars, ctlVars, scaleVars>>

\* exit(true): "Flush stdout to logs", one read_stdout_lines().
ExitDrain ==
    /\ pc = "ExitDrain"
    /\ CanReadChunk
    /\ \E k \in ChunkSizes :
          /\ stdout' = Rest(k)
          /\ promptSeen' = (promptSeen \/ AnyPrompt(Chunk(k)))
    /\ exitLog' = Append(exitLog, "drain")
    /\ pc' = "ExitWait"
    /\ UNCHANGED <<can_take_reading, rxq, cur, stderr, child, events,
                   spotread_tx, jw, startRes, interactive, displayed,
                   doneMeasuring, nOut, nErr, nSent, m, hist, diagRead, nStop,
                   nDoneProcessing, exitStatus, targetVars, patternVars,
                   timeoutVars, parseVars, refVars, gammaVars, cctVars,
                   tfVars, doviVars, jobVars, measVars, appVars, procVars,
                   genVars, ctlVars, scaleVars>>

\* The status a child can end with.
ExitStatuses == {"zero", "nonzero"}

\* The end of exit(): Ok(()) if status.success(), else bail!.
ExitResult(status) == IF status = "zero" THEN "ok" ELSE "err"

\* Fault injection in Propagates: an Err of exit() ends the caller at once.
PropagatesErr(res) == res = "err"

\* exit_logged(..) returns () whatever exit() returned: nothing of the
\* result reaches the caller.
Propagates(res) == FALSE

\* exit(..): child.wait() returns once the child has ended; exit_logged logs
\* the outcome whatever the status, and the caller goes on.
ExitWait ==
    /\ pc = "ExitWait"
    /\ child = "exited"
    /\ exitLog' = Append(exitLog, "wait")
    /\ \E status \in ExitStatuses :
          /\ exitStatus' = status
          /\ IF Propagates(ExitResult(status))
             THEN /\ pc' = "Terminated"
                  /\ child' = "reaped"
                  /\ UNCHANGED <<events, startRes, rxq, stdout, stderr, hist>>
             ELSE ExitEnds(TRUE)
    /\ UNCHANGED <<can_take_reading, cur, spotread_tx, jw, interactive,
                   displayed, doneMeasuring, nOut, nErr, nSent, m, diagRead,
                   nStop, promptSeen, nDoneProcessing, targetVars,
                   patternVars, timeoutVars, parseVars, refVars, gammaVars,
                   cctVars, tfVars, doviVars, jobVars, measVars, appVars,
                   procVars, genVars, ctlVars, scaleVars>>

\* ------------------------------------------------------- specification
Next ==
    \/ ToolPrint
    \/ ToolErrPrint
    \/ ToolExit
    \/ StartSpotreadProcess
    \/ StartReturned
    \/ SpotreadMeasure
    \/ StopSpotreadProcess
    \/ HandshakeErrLine
    \/ HandshakeReadByte
    \/ HandshakeReadErr
    \/ LoopErrLine
    \/ TakeCmd
    \/ SendPatternAndWait
    \/ TryMeasureBegin
    \/ MeasureSyncRead
    \/ MeasureResultRead
    \/ MeasureTimeout
    \/ ExitWriteQ1
    \/ ExitSleep
    \/ ExitWriteQ2
    \/ ExitDrain
    \/ ExitWait

Spec == Init /\ [][Next]_vars

\* ------------------------------------------------- the target's path
\* One value stands for the five global parameters a target is built from
\* (min_y, max_y, eotf, target_csp, max_hdr_mdl).
CalStates == {1, 2}

\* The user edits one of the global calibration parameters.
CalibrationChange ==
    /\ \E v \in CalStates \ {cal_state} : cal_state' = v
    /\ UNCHANGED <<driverVars, external_q, cmd_q, handling, issued, results,
                   patternVars, timeoutVars, parseVars, refVars, gammaVars,
                   cctVars, tfVars, doviVars, jobVars, measVars, appVars,
                   procVars, genVars, ctlVars, scaleVars>>

\* calibration_send_measure_selected_patch: the target is built from the
\* global parameters as they are now and sent, inside the request, to the
\* job worker (try_send: dropped when the channel is full).
CalibrationSendMeasure ==
    /\ Len(issued) < MaxCmds
    /\ LET config == [req |-> Len(issued) + 1, target |-> cal_state] IN
       /\ issued' = Append(issued, config.target)
       /\ external_q' = IF Len(external_q) < ChannelCap
                        THEN Append(external_q, config) ELSE external_q
    /\ UNCHANGED <<driverVars, cal_state, cmd_q, handling, results,
                   patternVars, timeoutVars, parseVars, refVars, gammaVars,
                   cctVars, tfVars, doviVars, jobVars, measVars, appVars,
                   procVars, genVars, ctlVars, scaleVars>>

\* ExternalJobCmd::SpotreadMeasure(config): forwarded as it is to the driver.
ForwardMeasure ==
    /\ external_q # <<>>
    /\ external_q' = Tail(external_q)
    /\ cmd_q' = IF Len(cmd_q) < ChannelCap
                THEN Append(cmd_q, Head(external_q)) ELSE cmd_q
    /\ UNCHANGED <<driverVars, cal_state, handling, issued, results,
                   patternVars, timeoutVars, parseVars, refVars, gammaVars,
                   cctVars, tfVars, doviVars, jobVars, measVars, appVars,
                   procVars, genVars, ctlVars, scaleVars>>

\* SpotreadCmd::DoReading((config, target)) taken by the driver.
TakeReading ==
    /\ handling = NoCmd
    /\ cmd_q # <<>>
    /\ handling' = Head(cmd_q)
    /\ cmd_q' = Tail(cmd_q)
    /\ UNCHANGED <<driverVars, cal_state, external_q, issued, results,
                   patternVars, timeoutVars, parseVars, refVars, gammaVars,
                   cctVars, tfVars, doviVars, jobVars, measVars, appVars,
                   procVars, genVars, ctlVars, scaleVars>>

\* Fault injection in ResultTarget: the result is built from the global parameters.
ResultTargetFromGlobals == cal_state

\* try_measure(target): the target handed to ReadingResult::new is the one
\* that came with the command.
ResultTarget == handling.target

\* A result line is parsed: SpotreadRes(Some(reading)) with reading.target.
EmitResult ==
    /\ handling # NoCmd
    /\ Len(results) < MaxOut
    /\ results' = Append(results, [req |-> handling.req,
                                   target |-> ResultTarget])
    /\ UNCHANGED <<driverVars, cal_state, external_q, cmd_q, handling, issued,
                   patternVars, timeoutVars, parseVars, refVars, gammaVars,
                   cctVars, tfVars, doviVars, jobVars, measVars, appVars,
                   procVars, genVars, ctlVars, scaleVars>>

\* The DoReading arm is over.
EndReading ==
    /\ handling # NoCmd
    /\ handling' = NoCmd
    /\ UNCHANGED <<driverVars, cal_state, external_q, cmd_q, issued, results,
                   patternVars, timeoutVars, parseVars, refVars, gammaVars,
                   cctVars, tfVars, doviVars, jobVars, measVars, appVars,
                   procVars, genVars, ctlVars, scaleVars>>

NextTarget ==
    \/ CalibrationChange
    \/ CalibrationSendMeasure
    \/ ForwardMeasure
    \/ TakeReading
    \/ EmitResult
    \/ EndReading

SpecTarget == Init /\ [][NextTarget]_vars

\* ------------------------------------------- the pattern on the display
\* The user edits the patch colour in the pattern configuration grid: the
\* app sends PGenControllerCmd::UpdateState and the controller replaces its
\* state; nothing is sent to the display.  (The grid is disabled while the
\* app is processing.)
AppUpdateState ==
    /\ pstep = "idle"
    /\ \E c \in Colours \ {ctl_patch} : ctl_patch' = c
    /\ UNCHANGED <<driverVars, targetVars, display, pstep, pcmd, nPat,
                   timeoutVars, parseVars, refVars, gammaVars, cctVars,
                   tfVars, doviVars, jobVars, measVars, appVars, procVars,
                   genVars, ctlVars, scaleVars>>

\* "Send pattern" button: PGenControllerCmd::SendCurrentPattern.
AppSendCurrentPattern ==
    /\ pstep = "idle"
    /\ display' = ctl_patch
    /\ UNCHANGED <<driverVars, targetVars, ctl_patch, pstep, pcmd, nPat,
                   timeoutVars, parseVars, refVars, gammaVars, cctVars,
                   tfVars, doviVars, jobVars, measVars, appVars, procVars,
                   genVars, ctlVars, scaleVars>>

\* SpotreadCmd::DoReading((config, target)) taken by the driver.
PatternTakeReading ==
    /\ pstep = "idle"
    /\ nPat < MaxCmds
    /\ nPat' = nPat + 1
    /\ \E c \in Colours : pcmd' = c
    /\ pstep' = "taken"
    /\ UNCHANGED <<driverVars, targetVars, ctl_patch, display, timeoutVars,
                   parseVars, refVars, gammaVars, cctVars, tfVars, doviVars,
                   jobVars, measVars, appVars, procVars, genVars, ctlVars,
                   scaleVars>>

\* controller.send_pattern_and_wait(config) under the controller lock:
\* send_pattern_from_cfg sends only "non repeated" patterns, i.e. when the
\* controller state's patch colour differs from the command's; then 500 ms.
SendPatternFromCfg ==
    /\ pstep = "taken"
    /\ IF ctl_patch # pcmd
       THEN /\ ctl_patch' = pcmd
            /\ display' = pcmd
       ELSE UNCHANGED <<ctl_patch, display>>
    /\ pstep' = "settled"
    /\ UNCHANGED <<driverVars, targetVars, pcmd, nPat, timeoutVars, parseVars,
                   refVars, gammaVars, cctVars, tfVars, doviVars, jobVars,
                   measVars, appVars, procVars, genVars, ctlVars, scaleVars>>

\* try_measure writes the trigger newline.
PatternTrigger ==
    /\ pstep = "settled"
    /\ pstep' = "triggered"
    /\ UNCHANGED <<driverVars, targetVars, ctl_patch, display, pcmd, nPat,
                   timeoutVars, parseVars, refVars, gammaVars, cctVars,
                   tfVars, doviVars, jobVars, measVars, appVars, procVars,
                   genVars, ctlVars, scaleVars>>

\* The DoReading arm is over (with or without a trigger written).
PatternReadingDone ==
    /\ pstep \in {"settled", "triggered"}
    /\ pstep' = "idle"
    /\ UNCHANGED <<driverVars, targetVars, ctl_patch, display, pcmd, nPat,
                   timeoutVars, parseVars, refVars, gammaVars, cctVars,
                   tfVars, doviVars, jobVars, measVars, appVars, procVars,
                   genVars, ctlVars, scaleVars>>

NextPattern ==
    \/ AppUpdateState
    \/ AppSendCurrentPattern
    \/ PatternTakeReading
    \/ SendPatternFromCfg
    \/ PatternTrigger
    \/ PatternReadingDone

SpecPattern == Init /\ [][NextPattern]_vars

\* ------------------------------------------- the time limit, in seconds
\* tokio::time::timeout(Duration::from_secs(20), try_measure(target)) is
\* entered: try_measure goes to its first read, or, with can_take_reading
\* set, writes the trigger and goes to its second.
TimedBegin ==
    /\ tstate = "idle"
    /\ nTimed < MaxCmds
    /\ nTimed' = nTimed + 1
    /\ elapsed' = 0
    /\ \E s \in {"sync", "read"} : tstate' = s
    /\ UNCHANGED <<driverVars, targetVars, patternVars, parseVars, refVars,
                   gammaVars, cctVars, tfVars, doviVars, jobVars, measVars,
                   appVars, procVars, genVars, ctlVars, scaleVars>>

\* Fault injection in TimeoutElapsed: the limit is reached a second early.
TimeoutElapsedEarly == elapsed >= MeasureTimeoutSecs - 1

\* The deadline of the timeout has been reached.
TimeoutElapsed == elapsed >= MeasureTimeoutSecs

\* A second passes while try_measure waits for output.
TimedTick ==
    /\ tstate \in {"sync", "read"}
    /\ ~TimeoutElapsed
    /\ elapsed' = elapsed + 1
    /\ UNCHANGED <<driverVars, targetVars, patternVars, tstate, nTimed,
                   parseVars, refVars, gammaVars, cctVars, tfVars, doviVars,
                   jobVars, measVars, appVars, procVars, genVars, ctlVars,
                   scaleVars>>

\* The first read returns a chunk.
TimedSyncRead ==
    /\ tstate = "sync"
    /\ tstate' = "read"
    /\ UNCHANGED <<driverVars, targetVars, patternVars, elapsed, nTimed,
                   parseVars, refVars, gammaVars, cctVars, tfVars, doviVars,
                   jobVars, measVars, appVars, procVars, genVars, ctlVars,
                   scaleVars>>

\* The second read returns a chunk: try_measure returns.
TimedResultRead ==
    /\ tstate = "read"
    /\ tstate' = "done"
    /\ UNCHANGED <<driverVars, targetVars, patternVars, elapsed, nTimed,
                   parseVars, refVars, gammaVars, cctVars, tfVars, doviVars,
                   jobVars, measVars, appVars, procVars, genVars, ctlVars,
                   scaleVars>>

\* The timeout returns Err(Elapsed): the measurement is abandoned.
TimedAbandon ==
    /\ tstate \in {"sync", "read"}
    /\ TimeoutElapsed
    /\ tstate' = "abandoned"
    /\ UNCHANGED <<driverVars, targetVars, patternVars, elapsed, nTimed,
                   parseVars, refVars, gammaVars, cctVars, tfVars, doviVars,
                   jobVars, measVars, appVars, procVars, genVars, ctlVars,
                   scaleVars>>

\* The DoReading arm is over.
TimedEnd ==
    /\ tstate \in {"done", "abandoned"}
    /\ tstate' = "idle"
    /\ UNCHANGED <<driverVars, targetVars, patternVars, elapsed, nTimed,
                   parseVars, refVars, gammaVars, cctVars, tfVars, doviVars,
                   jobVars, measVars, appVars, procVars, genVars, ctlVars,
                   scaleVars>>

NextTimeout ==
    \/ TimedBegin
    \/ TimedTick
    \/ TimedSyncRead
    \/ TimedResultRead
    \/ TimedAbandon
    \/ TimedEnd

SpecTimeout == Init /\ [][NextTimeout]_vars

\* ------------------------------------------------- one line of stdout
\* Number tokens ("1.916894", ..), told apart by a small integer.
Vals == 1..MaxVal

\* Two or three number tokens.
Triples == UNION {[1..n -> Vals] : n \in 2..3}

\* Text in front of "XYZ:" and text after the last Lab token.
Leads == {"Result is ", "Making result ", ""}

Trails == {"", " white reference."}

\* Lines of the shape <lead>XYZ: <f>.., D50 Lab: <f>..<trail>
Lines == [lead : Leads, xyz : Triples, lab : Triples, trail : Trails]

\* try_measure: line.starts_with("Result is XYZ:")
StartsWithResultIsXYZ(l) == l.lead = "Result is "

\* ReadingResult::new: the part before ", " must strip the prefix
\* "Result is XYZ: ", the part after it the prefix "D50 Lab: "; of each rest
\* the white-space separated tokens that parse as f32 are kept (the words of
\* the trailing text do not), and there must be exactly three.
ReadingResultNew(l) ==
    IF l.lead = "Result is " /\ Len(l.xyz) = 3 /\ Len(l.lab) = 3
    THEN [t |-> "Some", xyz |-> l.xyz, lab |-> l.lab]
    ELSE [t |-> "Err", xyz |-> <<>>, lab |-> <<>>]

\* One line in the for loop of try_measure: a parsed result is sent as
\* SpotreadRes(Some(reading)), a parse error is returned; a line that does
\* not start with "Result is XYZ:" is no result line.
HandleLine ==
    /\ out = NoOut
    /\ out' = IF StartsWithResultIsXYZ(line)
              THEN ReadingResultNew(line)
              ELSE [t |-> "NoResultLine", xyz |-> <<>>, lab |-> <<>>]
    /\ UNCHANGED <<driverVars, targetVars, patternVars, timeoutVars, line,
                   refVars, gammaVars, cctVars, tfVars, doviVars, jobVars,
                   measVars, appVars, procVars, genVars, ctlVars, scaleVars>>

InitParse ==
    /\ DriverInit
    /\ TargetInit
    /\ PatternInit
    /\ TimeoutInit
    /\ RefInit
    /\ GammaInit
    /\ CctInit
    /\ TfInit
    /\ DoviInit
    /\ JobInit
    /\ MeasInit
    /\ AppInit
    /\ ProcInit
    /\ GenInit
    /\ CtlInit
    /\ ScaleInit
    /\ line \in Lines
    /\ out = NoOut

NextParse == HandleLine

SpecParse == InitParse /\ [][NextParse]_vars

\* ------------------------------------------- the reference colour
\* compute_rgb_range(limited_range, depth): the code values of black and
\* white.
MinRgbValue(limited_range, depth) ==
    IF limited_range THEN 16 * 2^(depth - 8) ELSE 0

MaxRgbValue(limited_range, depth) ==
    IF limited_range
    THEN (IF depth = 10 THEN 219 * 4 ELSE 219) + MinRgbValue(limited_range, depth)
    ELSE 2^depth - 1

\* get_rgb_real_range: (min, max - min)
RealMax(limited_range, depth) ==
    MaxRgbValue(limited_range, depth) - MinRgbValue(limited_range, depth)

\* Components of the preset lists, in halves (0.0, 0.5, 1.0).
PresetHalves == 0..2

\* Components a patch list file can hold (u16).
CsvValues == {0, 16, 64, 235, 255, 940, 1023, 65535}

BitDepths == {8, 10}

\* The user changes the quantisation range or the bit depth of the pattern
\* configuration; the loaded patch list is left as it is.
ChangePatternConfig ==
    /\ \E l \in BOOLEAN, d \in BitDepths :
          /\ [limited_range |-> l, bit_depth |-> d] # cfg
          /\ cfg' = [limited_range |-> l, bit_depth |-> d]
    /\ UNCHANGED <<driverVars, targetVars, patternVars, timeoutVars,
                   parseVars, list, ref_rgb, gammaVars, cctVars, tfVars,
                   doviVars, jobVars, measVars, appVars, procVars, genVars,
                   ctlVars, scaleVars>>

\* InternalGenerator::load_preset(config): ((c * real_max) + min).round()
LoadPreset ==
    /\ \E h \in PresetHalves :
          list' = <<(h * RealMax(cfg.limited_range, cfg.bit_depth) + 1) \div 2
                       + MinRgbValue(cfg.limited_range, cfg.bit_depth)>>
    /\ UNCHANGED <<driverVars, targetVars, patternVars, timeoutVars,
                   parseVars, cfg, ref_rgb, gammaVars, cctVars, tfVars,
                   doviVars, jobVars, measVars, appVars, procVars, genVars,
                   ctlVars, scaleVars>>

\* parse_patch_list_csv_file: the values of the file, as they are.
LoadPatchListFile ==
    /\ \E v \in CsvValues : list' = <<v>>
    /\ UNCHANGED <<driverVars, targetVars, patternVars, timeoutVars,
                   parseVars, cfg, ref_rgb, gammaVars, cctVars, tfVars,
                   doviVars, jobVars, measVars, appVars, procVars, genVars,
                   ctlVars, scaleVars>>

\* rgb_to_float: (c - min) as f64 / real_max, the subtraction in u16: below
\* min it panics in a build with overflow checks and wraps in one without.
\* The quotient is kept as numerator and denominator.
RgbToFloat(c, limited_range, bit_depth) ==
    LET min == MinRgbValue(limited_range, bit_depth)
        real_max == RealMax(limited_range, bit_depth)
    IN IF c >= min
       THEN {[st |-> "sent", num |-> c - min, den |-> real_max]}
       ELSE {[st |-> "panic", num |-> 0, den |-> real_max],
             [st |-> "sent", num |-> (c - min) % 65536, den |-> real_max]}

\* calibration_send_measure_selected_patch: ref_rgb of the target (rounding
\* to six decimals leaves a value inside [0, 1] inside and one outside
\* outside).
SendMeasureSelectedPatch ==
    /\ list # <<>>
    /\ ref_rgb' \in RgbToFloat(list[1], cfg.limited_range, cfg.bit_depth)
    /\ UNCHANGED <<driverVars, targetVars, patternVars, timeoutVars,
                   parseVars, cfg, list, gammaVars, cctVars, tfVars, doviVars,
                   jobVars, measVars, appVars, procVars, genVars, ctlVars,
                   scaleVars>>

NextRef ==
    \/ ChangePatternConfig
    \/ LoadPreset
    \/ LoadPatchListFile
    \/ SendMeasureSelectedPatch

SpecRef == Init /\ [][NextRef]_vars

\* ---------------------------------------------------------------- gamma
\* ref_rgb components in hundredths: 0.0, 0.01, 0.02, 0.5, 1.0, 1.5
StimLevels == {0, 1, 2, 50, 100, 150}

\* Values of LuminanceEotf::gamma, in thousandths (2.2, 2.4).
GammaVals == {2200, 2400}

\* is_white_stimulus_reading: all components equal to the first.
IsWhiteStimulusReading(r) ==
    \A i \in 1..3 : r.ref_rgb[i] = r.ref_rgb[1]

\* not_zero_or_one_rgb: (0.01..1.0).contains(&ref_rgb.x), a range that
\* holds its start and not its end.
NotZeroOrOneRgb(r) == 1 <= r.ref_rgb[1] /\ r.ref_rgb[1] < 100

\* ReadingResult::gamma
Gamma(r) ==
    IF IsWhiteStimulusReading(r) /\ NotZeroOrOneRgb(r)
    THEN [t |-> "Some", v |-> r.g]
    ELSE [t |-> "None", v |-> 0]

\* gamma() is called on the reading.
ApplyGamma ==
    /\ gamma_out = NoGamma
    /\ gamma_out' = Gamma(reading)
    /\ UNCHANGED <<driverVars, targetVars, patternVars, timeoutVars,
                   parseVars, refVars, reading, readings, avg_gamma, cctVars,
                   tfVars, doviVars, jobVars, measVars, appVars, procVars,
                   genVars, ctlVars, scaleVars>>

InitGamma ==
    /\ DriverInit
    /\ TargetInit
    /\ PatternInit
    /\ TimeoutInit
    /\ ParseInit
    /\ RefInit
    /\ CctInit
    /\ TfInit
    /\ DoviInit
    /\ JobInit
    /\ MeasInit
    /\ AppInit
    /\ ProcInit
    /\ GenInit
    /\ CtlInit
    /\ ScaleInit
    /\ reading \in [ref_rgb : StimLevels \X StimLevels \X StimLevels,
                    g : GammaVals]
    /\ gamma_out = NoGamma
    /\ readings = <<>>
    /\ avg_gamma = NoAverage

NextGamma == ApplyGamma

SpecGamma == InitGamma /\ [][NextGamma]_vars

\* ------------------------------------------------------- average gamma
\* Readings of a result set: black, grey, white and red patches.
SetReadings ==
    [ref_rgb : {<<0, 0, 0>>, <<50, 50, 50>>, <<100, 100, 100>>, <<50, 0, 0>>},
     g : GammaVals]

\* results.iter().filter_map(|e| e.gamma()).sum()
RECURSIVE GammaSum(_)
GammaSum(rs) ==
    IF rs = <<>> THEN 0
    ELSE (IF Gamma(Head(rs)).t = "Some" THEN Gamma(Head(rs)).v ELSE 0)
             + GammaSum(Tail(rs))

\* results_average_gamma: Some(gamma_sum / results.len() as f64), kept as
\* numerator and denominator (0 / 0 is NaN).
ResultsAverageGamma(rs) ==
    [t |-> "Some", num |-> GammaSum(rs), den |-> Len(rs)]

\* handle_spotread_result stores a measurement result with its patch;
\* results() collects the stored results in list order.
AddReading ==
    /\ Len(readings) < MaxResults
    /\ \E r \in SetReadings : readings' = Append(readings, r)
    /\ avg_gamma' = NoAverage
    /\ UNCHANGED <<driverVars, targetVars, patternVars, timeoutVars,
                   parseVars, refVars, reading, gamma_out, cctVars, tfVars,
                   doviVars, jobVars, measVars, appVars, procVars, genVars,
                   ctlVars, scaleVars>>

\* add_calibration_ui draws the summary when there are results, and
\* draw_results_summary_ui computes their average gamma.
DrawResultsSummary ==
    /\ readings # <<>>
    /\ avg_gamma = NoAverage
    /\ avg_gamma' = ResultsAverageGamma(readings)
    /\ UNCHANGED <<driverVars, targetVars, patternVars, timeoutVars,
                   parseVars, refVars, reading, gamma_out, readings, cctVars,
                   tfVars, doviVars, jobVars, measVars, appVars, procVars,
                   genVars, ctlVars, scaleVars>>

NextAverage ==
    \/ AddReading
    \/ DrawResultsSummary

SpecAverage == Init /\ [][NextAverage]_vars

\* ------------------------------------------------------------------ cct
\* Fixed-point units: u, v in 1e-3, the isotherm slope t in 1e-2, signed
\* distances in 1e-5, reciprocal temperatures in 5e-6 per kelvin.

\* A reciprocal temperature: big * f64::MAX + fin * 5e-6.
Recip(n) == [big |-> 0, fin |-> n]

\* f64::MIN, the most negative finite f64.
F64Min == [big |-> -1, fin |-> 0]

RECIPROCAL_TEMP ==
    <<F64Min, Recip(2), Recip(4), Recip(6), Recip(8), Recip(10), Recip(12),
      Recip(14), Recip(16), Recip(18), Recip(20), Recip(25), Recip(30),
      Recip(35), Recip(40), Recip(45), Recip(50), Recip(55), Recip(60),
      Recip(65), Recip(70), Recip(75), Recip(80), Recip(85), Recip(90),
      Recip(95), Recip(100), Recip(105), Recip(110), Recip(115), Recip(120)>>

\* UVT LUT, rounded to the fixed-point units; row i of the code is UVT[i + 1].
UVT ==
  <<
    <<180, 264, -24>>,
    <<181, 266, -25>>,
    <<181, 268, -27>>,
    <<182, 271, -29>>,
    <<183, 274, -30>>,
    <<184, 277, -33>>,
    <<185, 280, -35>>,
    <<186, 283, -38>>,
    <<187, 287, -41>>,
    <<189, 290, -44>>,
    <<190, 293, -48>>,
    <<195, 301, -58>>,
    <<200, 309, -70>>,
    <<205, 316, -85>>,
    <<211, 323, -102>>,
    <<218, 329, -122>>,
    <<225, 334, -145>>,
    <<232, 339, -173>>,
    <<240, 343, -206>>,
    <<248, 347, -247>>,
    <<256, 350, -296>>,
    <<264, 352, -358>>,
    <<272, 354, -436>>,
    <<280, 356, -538>>,
    <<289, 357, -673>>,
    <<297, 358, -860>>,
    <<305, 359, -1132>>,
    <<313, 360, -1563>>,
    <<321, 360, -2332>>,
    <<329, 360, -4077>>,
    <<337, 361, -11645>>
  >>

\* Number of rows of the tables.
Rows == Len(UVT)

RECURSIVE SqrtBetween(_, _, _)
SqrtBetween(n, lo, hi) ==
    IF lo = hi THEN lo
    ELSE LET mid == (lo + hi + 1) \div 2
         IN IF mid * mid <= n THEN SqrtBetween(n, mid, hi)
                              ELSE SqrtBetween(n, lo, mid - 1)

\* (1.0 + t * t).sqrt(), in 1e-2.
SqrtOnePlusSq(t) == SqrtBetween(10000 + t * t, 0, 46340)

\* The sign test of the loop: di and dm on opposite sides.
Flips(di, dm) == (di < 0 /\ dm >= 0) \/ (di >= 0 /\ dm < 0)

\* di = (vs - uvt.y) - uvt.z * (us - uvt.x) for row i of the code.
Distance(us, vs, i) ==
    (vs - UVT[i + 1][2]) * 100 - UVT[i + 1][3] * (us - UVT[i + 1][1])

\* Fault injection in SearchRows: dm is not updated (`dm = di` left out).
RECURSIVE SearchRowsKeepsDm(_, _, _, _, _)
SearchRowsKeepsDm(us, vs, i, di, dm) ==
    IF i = Rows THEN [i |-> i, di |-> di, dm |-> dm]
    ELSE LET d == Distance(us, vs, i)
         IN IF i > 0 /\ Flips(d, dm)
            THEN [i |-> i, di |-> d, dm |-> dm]
            ELSE SearchRowsKeepsDm(us, vs, i + 1, d, dm)

\* The loop `for _ in 0..31`: i, di and dm when it ends, from its state
\* before the iteration on row i.
RECURSIVE SearchRows(_, _, _, _, _)
SearchRows(us, vs, i, di, dm) ==
    IF i = Rows THEN [i |-> i, di |-> di, dm |-> dm]
    ELSE LET d == Distance(us, vs, i)
         IN IF i > 0 /\ Flips(d, dm)
            THEN [i |-> i, di |-> d, dm |-> dm]
            ELSE SearchRows(us, vs, i + 1, d, d)

\* lerp(v, rhs, t) = v + (rhs - v) * t with t = pn / pd, as a fraction
\* over pd. A finite part next to a part of the size of f64::MAX is lost
\* in the rounding of the f64 sum.
Lerp(v, rhs, pn, pd) ==
    LET big == v.big * pd + (rhs.big - v.big) * pn
        fin == v.fin * pd + (rhs.fin - v.fin) * pn
    IN  [big |-> big,
         fin |-> IF v.big # 0 \/ rhs.big # 0 THEN 0 ELSE fin,
         den |-> pd]

NoCct == [t |-> "pending"]

CctNone == [t |-> "None"]

\* xyz_to_cct
XyzToCct(c) ==
    IF c[1] <= 0 /\ c[2] <= 0 /\ c[3] <= 0
    THEN CctNone
    ELSE LET den == c[1] + 15 * c[2] + 3 * c[3]
             us == (4 * 1000 * c[1]) \div den
             vs == (6 * 1000 * c[2]) \div den
             s == SearchRows(us, vs, 0, 0, 0)
         IN  IF s.i = Rows
             THEN CctNone
             ELSE LET di == (s.di * 10) \div SqrtOnePlusSq(UVT[s.i + 1][3])
                      dm == (s.dm * 10) \div SqrtOnePlusSq(UVT[s.i][3])
                      pn == dm
                      pd == dm - di
                  IN  [t |-> "Some", i |-> s.i, pn |-> pn, pd |-> pd,
                       recip |-> Lerp(RECIPROCAL_TEMP[s.i],
                                      RECIPROCAL_TEMP[s.i + 1], pn, pd)]

\* The XYZ of a reading, in steps of the grid.
XyzGrid == 0..MaxXyz

\* set_or_update_calculated_values computes the CCT of the reading.
ApplyCct ==
    /\ cct_out = NoCct
    /\ cct_out' = XyzToCct(xyz)
    /\ UNCHANGED <<driverVars, targetVars, patternVars, timeoutVars,
                   parseVars, refVars, gammaVars, xyz, tfVars, doviVars,
                   jobVars, measVars, appVars, procVars, genVars, ctlVars,
                   scaleVars>>

InitCct ==
    /\ DriverInit
    /\ TargetInit
    /\ PatternInit
    /\ TimeoutInit
    /\ ParseInit
    /\ RefInit
    /\ GammaInit
    /\ TfInit
    /\ DoviInit
    /\ JobInit
    /\ MeasInit
    /\ AppInit
    /\ ProcInit
    /\ GenInit
    /\ CtlInit
    /\ ScaleInit
    /\ xyz \in XyzGrid \X XyzGrid \X XyzGrid
    /\ cct_out = NoCct

NextCct == ApplyCct

SpecCct == InitCct /\ [][NextCct]_vars

\* ------------------------------------------------- transfer functions
\* f64 values are fractions n / d with d > 0; NaN has d = 0.
RECURSIVE Gcd(_, _)
Gcd(a, b) == IF b = 0 THEN a ELSE Gcd(b, a % b)

Abs(x) == IF x < 0 THEN -x ELSE x

Frac(n, d) ==
    LET g == Gcd(Abs(n), d)
    IN  IF g = 0 THEN [n |-> 0, d |-> 0] ELSE [n |-> n \div g, d |-> d \div g]

NaN == [n |-> 0, d |-> 0]

IsNaN(a) == a.d = 0

Tenths(k) == Frac(k, 10)

FAdd(a, b) ==
    IF IsNaN(a) \/ IsNaN(b) THEN NaN
    ELSE LET g == Gcd(a.d, b.d)
         IN  Frac(a.n * (b.d \div g) + b.n * (a.d \div g), (a.d \div g) * b.d)

FNeg(a) == [n |-> -a.n, d |-> a.d]

FSub(a, b) == FAdd(a, FNeg(b))

FMul(a, b) ==
    IF IsNaN(a) \/ IsNaN(b) THEN NaN
    ELSE LET g1 == Gcd(Abs(a.n), b.d)
             g2 == Gcd(Abs(b.n), a.d)
         IN  IF a.n = 0 \/ b.n = 0 THEN Frac(0, 1)
             ELSE Frac((a.n \div g1) * (b.n \div g2),
                       (a.d \div g2) * (b.d \div g1))

\* a / b for b > 0.
FDiv(a, b) == FMul(a, [n |-> b.d, d |-> b.n])

\* a < b; no comparison with NaN holds.
FLt(a, b) ==
    /\ ~IsNaN(a)
    /\ ~IsNaN(b)
    /\ LET g == Gcd(a.d, b.d)
       IN  a.n * (b.d \div g) < b.n * (a.d \div g)

FLe(a, b) == ~IsNaN(a) /\ ~IsNaN(b) /\ ~FLt(b, a)

\* f64::max(a, 0.0), which ignores a NaN.
FMaxZero(a) == IF IsNaN(a) \/ a.n < 0 THEN Frac(0, 1) ELSE a

\* v.powf(2.2) at v = 0, 0.1, .., 1, in 1e-4.
Gamma22Eotf ==
    <<0, 63, 290, 707, 1332, 2176, 3250, 4563, 6121, 7931, 10000>>

\* v.powf(1 / 2.2) at v = 0, 0.1, .., 1, in 1e-4.
Gamma22Oetf ==
    <<0, 3511, 4812, 5785, 6594, 7297, 7928, 8503, 9035, 9532, 10000>>

\* v.powf(2.4) at v = 0, 0.1, .., 1, in 1e-4.
Gamma24Eotf ==
    <<0, 40, 210, 556, 1109, 1895, 2935, 4248, 5854, 7766, 10000>>

\* v.powf(1 / 2.4) at v = 0, 0.1, .., 1, in 1e-4.
Gamma24Oetf ==
    <<0, 3831, 5114, 6055, 6826, 7492, 8083, 8619, 9112, 9570, 10000>>

\* pq_to_linear at x = 0, 0.1, .., 1, in 1e-7.
PqToLinear ==
    <<0, 325, 2429, 10038, 32448, 92246, 244005, 620879, 1555178, 3905645, 10000000>>

\* linear_to_pq at v = 0, 0.1, .., 1, in 1e-7; at 0 it is
\* (3424 / 4096) ^ 78.84375 = 7.3e-7.
LinearToPq ==
    <<7, 7518271, 8274246, 8714864, 9025724, 9265467, 9460286, 9624161, 9765439, 9889495, 10000000>>

EotfKinds == {"Gamma22", "Gamma24", "PQ"}

\* A tabulated function at v in [0,1], linear between the tenths.
Interpolate(tab, unit, v) ==
    LET q == (v.n * 10) \div v.d
        r == Frac((v.n * 10) % v.d, v.d)
    IN  IF r.n = 0 THEN Frac(tab[q + 1], unit)
        ELSE FAdd(Frac(tab[q + 1], unit),
                  FMul(Frac(tab[q + 2] - tab[q + 1], unit), r))

\* f64::powf of a negative base with these exponents, and of NaN, is NaN.
Powf(tab, v) ==
    IF IsNaN(v) \/ v.n < 0 THEN NaN ELSE Interpolate(tab, 10000, v)

\* Fault injection in Pq_to_linear: no `x > 0.0` guard, so that powf gets a
\* negative base.
Pq_to_linearUnguarded(x) ==
    IF IsNaN(x) \/ x.n < 0 THEN NaN ELSE Interpolate(PqToLinear, 10000000, x)

\* LuminanceEotf::pq_to_linear
Pq_to_linear(x) ==
    IF FLt(Frac(0, 1), x) THEN Interpolate(PqToLinear, 10000000, x)
    ELSE Frac(0, 1)

\* LuminanceEotf::linear_to_pq
Linear_to_pq(v) ==
    IF IsNaN(v) \/ v.n < 0 THEN NaN ELSE Interpolate(LinearToPq, 10000000, v)

\* LuminanceEotf::eotf
Eotf(kind, v) ==
    CASE kind = "Gamma22" -> Powf(Gamma22Eotf, v)
      [] kind = "Gamma24" -> Powf(Gamma24Eotf, v)
      [] kind = "PQ" -> Pq_to_linear(v)

\* LuminanceEotf::oetf
Oetf(kind, v) ==
    CASE kind = "Gamma22" -> Powf(Gamma22Oetf, v)
      [] kind = "Gamma24" -> Powf(Gamma24Oetf, v)
      [] kind = "PQ" -> Linear_to_pq(v)

\* LuminanceEotf::value
Value(kind, v, oetf) == IF oetf THEN Oetf(kind, v) ELSE Eotf(kind, v)

\* LuminanceEotf::eotf_bpc
EotfBpc(kind, min, v) ==
    LET max == FSub(Frac(1, 1), min)
        w == FMaxZero(FDiv(FSub(v, min), max))
    IN  FAdd(FMul(Eotf(kind, w), max), min)

\* Fault injection in OetfBpc: the offset `+ min` is left out.
OetfBpcNoOffset(kind, min, v) ==
    FMul(Oetf(kind, v), FSub(Frac(1, 1), min))

\* LuminanceEotf::oetf_bpc
OetfBpc(kind, min, v) ==
    LET max == FSub(Frac(1, 1), min)
    IN  FAdd(FMul(Oetf(kind, v), max), min)

\* LuminanceEotf::value_bpc
ValueBpc(kind, min, v, oetf, linear_min) ==
    LET lmin == IF kind = "PQ" THEN Frac(0, 1)
                ELSE IF linear_min THEN min
                ELSE Oetf(kind, min)
    IN  IF oetf THEN OetfBpc(kind, lmin, v) ELSE EotfBpc(kind, lmin, v)

NoValue == [n |-> 0, d |-> -1]

\* The arguments: an EOTF kind, a black level and an input in tenths.
TfInputs ==
    [eotf : EotfKinds, min : 0..MaxMin, v : (-MaxNeg)..10,
     oetf : BOOLEAN, linear_min : BOOLEAN]

\* value() is applied to the input.
ApplyValue ==
    /\ val_out = NoValue
    /\ val_out' = Value(tf_in.eotf, Tenths(tf_in.v), tf_in.oetf)
    /\ UNCHANGED <<driverVars, targetVars, patternVars, timeoutVars,
                   parseVars, refVars, gammaVars, cctVars, tf_in, bpc_out,
                   doviVars, jobVars, measVars, appVars, procVars, genVars,
                   ctlVars, scaleVars>>

\* value_bpc() is applied to the black level and the input.
ApplyValueBpc ==
    /\ bpc_out = NoValue
    /\ bpc_out' = ValueBpc(tf_in.eotf, Tenths(tf_in.min), Tenths(tf_in.v),
                           tf_in.oetf, tf_in.linear_min)
    /\ UNCHANGED <<driverVars, targetVars, patternVars, timeoutVars,
                   parseVars, refVars, gammaVars, cctVars, tf_in, val_out,
                   doviVars, jobVars, measVars, appVars, procVars, genVars,
                   ctlVars, scaleVars>>

InitTf ==
    /\ DriverInit
    /\ TargetInit
    /\ PatternInit
    /\ TimeoutInit
    /\ ParseInit
    /\ RefInit
    /\ GammaInit
    /\ CctInit
    /\ DoviInit
    /\ JobInit
    /\ MeasInit
    /\ AppInit
    /\ ProcInit
    /\ GenInit
    /\ CtlInit
    /\ ScaleInit
    /\ tf_in \in TfInputs
    /\ val_out = NoValue
    /\ bpc_out = NoValue

NextTf ==
    \/ ApplyValue
    \/ ApplyValueBpc

SpecTf == InitTf /\ [][NextTf]_vars

\* ----------------------------------------------- Dolby Vision patterns
\* f32::round (half away from zero) followed by `as u16` (saturating).
RoundAsU16(a) ==
    IF a.n <= 0 THEN 0
    ELSE LET r == (2 * a.n + a.d) \div (2 * a.d)
         IN  IF r > 65535 THEN 65535 ELSE r

\* 2.0_f32.powf(diff)
Pow2(k) == IF k = 0 THEN 1 ELSE IF k = 1 THEN 2 ELSE IF k = 2 THEN 4 ELSE 1024

\* scale_rgb_into_range
ScaleRgbIntoRange(val, depth, limited_range, prev_limited_range) ==
    IF prev_limited_range # limited_range
    THEN LET lo == IF depth = 8 THEN Frac(16, 1) ELSE Frac(64, 1)
             hi == IF depth = 8 THEN Frac(255, 1) ELSE Frac(1023, 1)
             limited_max == IF depth = 8 THEN Frac(219, 1) ELSE Frac(876, 1)
         IN  IF prev_limited_range /\ ~limited_range
             THEN FMul(FDiv(FSub(val, lo), limited_max), hi)
             ELSE FAdd(FMul(FDiv(val, hi), limited_max), lo)
    ELSE val

\* scale_8b_rgb_to_10b
Scale8bRgbTo10b(c, diff, depth, limited_range, prev_limited_range) ==
    LET val == ScaleRgbIntoRange(Frac(c, 1), 8, limited_range,
                                 prev_limited_range)
    IN  IF depth > 8
        THEN RoundAsU16(FMul(IF c = 255 THEN Frac(Pow2(depth) - 1, 1) ELSE val,
                             Frac(Pow2(diff), 1)))
        ELSE RoundAsU16(val)

\* Fault injection in ScaleDown: integer division, as in rgb_10b_to_8b.
ScaleDownTruncates(c, diff, depth, limited_range, prev_limited_range) ==
    c \div Pow2(diff)

\* The 10 bit to 8 bit branch of scale_pattern_config_rgb_values.
ScaleDown(c, diff, depth, limited_range, prev_limited_range) ==
    RoundAsU16(ScaleRgbIntoRange(Frac(c, Pow2(diff)), depth, limited_range,
                                 prev_limited_range))

\* scale_pattern_config_rgb_values
ScalePatternConfigRgbValues(config, depth, prev_depth, limited_range, prev_limited_range) ==
    IF depth = prev_depth /\ limited_range = prev_limited_range
    THEN config
    ELSE LET diff == Abs(depth - prev_depth)
             Scaled(c) ==
                 IF prev_depth = 8
                 THEN Scale8bRgbTo10b(c, diff, depth, limited_range,
                                      prev_limited_range)
                 ELSE ScaleDown(c, diff, depth, limited_range,
                                prev_limited_range)
         IN  [bit_depth |-> depth,
              limited_range |-> limited_range,
              patch_colour |-> [k \in 1..3 |-> Scaled(config.patch_colour[k])],
              background_colour |->
                  [k \in 1..3 |-> Scaled(config.background_colour[k])]]

\* Patch and background colours of the requests: the default, those of
\* test_8bit_override, and 10 bit white.
DvColours ==
    {<<<<128, 128, 128>>, <<0, 0, 0>>>>,
     <<<<514, 512, 512>>, <<64, 64, 64>>>>,
     <<<<1023, 1023, 1023>>, <<0, 0, 0>>>>}

DvConfigs ==
    {[bit_depth |-> b, limited_range |-> l,
      patch_colour |-> c[1], background_colour |-> c[2]] :
        b \in BitDepths, l \in BOOLEAN, c \in DvColours}

\* PGenControllerCmd::UpdateState(state): controller.state = state, which
\* holds the GUI's pattern configuration and output configuration.
DvUpdateState ==
    /\ \E c \in DvConfigs, d \in BOOLEAN :
        /\ <<c, d>> # <<pattern_config, dovi>>
        /\ pattern_config' = c
        /\ dovi' = d
    /\ dv_last' = "update"
    /\ UNCHANGED <<driverVars, targetVars, patternVars, timeoutVars,
                   parseVars, refVars, gammaVars, cctVars, tfVars, dv_req,
                   dv_sent, jobVars, measVars, appVars, procVars, genVars,
                   ctlVars, scaleVars>>

\* A SetOutputIs* response sets output_config.dynamic_range.
DvDynamicRangeResponse ==
    /\ dovi' = ~dovi
    /\ dv_last' = "range"
    /\ UNCHANGED <<driverVars, targetVars, patternVars, timeoutVars,
                   parseVars, refVars, gammaVars, cctVars, tfVars,
                   pattern_config, dv_req, dv_sent, jobVars, measVars,
                   appVars, procVars, genVars, ctlVars, scaleVars>>

\* PGenControllerCmd::SendCurrentPattern: the stored pattern is sent as is.
DvSendCurrentPattern ==
    /\ dv_sent' = pattern_config
    /\ dv_last' = "current"
    /\ UNCHANGED <<driverVars, targetVars, patternVars, timeoutVars,
                   parseVars, refVars, gammaVars, cctVars, tfVars,
                   pattern_config, dovi, dv_req, jobVars, measVars, appVars,
                   procVars, genVars, ctlVars, scaleVars>>

\* PGenControllerCmd::TestPattern(config): send_pattern_from_cfg.
DvSendPatternFromCfg ==
    \E config \in DvConfigs :
        /\ dv_req' = config
        /\ IF pattern_config.patch_colour # config.patch_colour
           THEN LET new_pattern_cfg ==
                        [pattern_config EXCEPT
                            !.bit_depth = config.bit_depth,
                            !.patch_colour = config.patch_colour,
                            !.background_colour = config.background_colour]
                    stored ==
                        IF dovi /\ new_pattern_cfg.bit_depth # 8
                        THEN ScalePatternConfigRgbValues(
                                 new_pattern_cfg, 8,
                                 new_pattern_cfg.bit_depth, FALSE, FALSE)
                        ELSE new_pattern_cfg
                IN  /\ pattern_config' = stored
                    /\ dv_sent' = stored
                    /\ dv_last' = "sent"
           ELSE /\ dv_last' = "repeated"
                /\ UNCHANGED <<pattern_config, dv_sent>>
        /\ UNCHANGED <<driverVars, targetVars, patternVars, timeoutVars,
                       parseVars, refVars, gammaVars, cctVars, tfVars, dovi,
                       jobVars, measVars, appVars, procVars, genVars, ctlVars,
                       scaleVars>>

NextDovi ==
    \/ DvUpdateState
    \/ DvDynamicRangeResponse
    \/ DvSendCurrentPattern
    \/ DvSendPatternFromCfg

SpecDovi == Init /\ [][NextDovi]_vars

\* ------------------------------------------------ job worker and app flag
\* Commands of the external job worker that concern spotread.
JobCmds == {"StartSpotreadProcess", "StopSpotreadProcess", "SpotreadMeasure"}

\* Sender::try_send: the message is queued unless the channel is full or
\* its receiver is gone.
JobTrySend(q, open, msg) ==
    IF open /\ Len(q) < ChannelCap THEN Append(q, msg) ELSE q

\* The app sends a command to the job worker (external_tx.try_send).
JobAppRequest ==
    /\ nJobs < MaxJobs
    /\ nJobs' = nJobs + 1
    /\ \E c \in JobCmds : ext_q' = JobTrySend(ext_q, TRUE, c)
    /\ UNCHANGED <<driverVars, targetVars, patternVars, timeoutVars,
                   parseVars, refVars, gammaVars, cctVars, tfVars, doviVars,
                   job_tx, drv, drv_q, processing, measVars, appVars,
                   procVars, genVars, ctlVars, scaleVars>>

\* One turn of the job worker's loop: Processing is sent, then the command
\* is handled. start_spotread_worker either fails or returns the sender of
\* a new driver, which replaces the one held.
JobHandle ==
    /\ ext_q # <<>>
    /\ LET cmd == Head(ext_q)
       IN  CASE cmd = "StartSpotreadProcess" ->
                  /\ \E ok \in BOOLEAN :
                        IF ok
                        THEN /\ job_tx' = TRUE
                             /\ drv' = "running"
                             /\ drv_q' = <<>>
                        ELSE UNCHANGED <<job_tx, drv, drv_q>>
                  /\ ext_q' = Tail(ext_q)
                  /\ processing' = FALSE
             [] cmd = "StopSpotreadProcess" ->
                  /\ drv_q' = IF job_tx
                              THEN JobTrySend(drv_q, drv = "running", "Exit")
                              ELSE drv_q
                  /\ job_tx' = FALSE
                  /\ ext_q' = Tail(ext_q)
                  /\ processing' = FALSE
                  /\ UNCHANGED drv
             [] cmd = "SpotreadMeasure" ->
                  /\ drv_q' = IF job_tx
                              THEN JobTrySend(drv_q, drv = "running",
                                              "DoReading")
                              ELSE drv_q
                  /\ ext_q' = Tail(ext_q)
                  /\ processing' = TRUE
                  /\ UNCHANGED <<job_tx, drv>>
             [] cmd = "SpotreadDoneMeasuring" ->
                  /\ ext_q' = Tail(ext_q)
                  /\ processing' = FALSE
                  /\ UNCHANGED <<job_tx, drv, drv_q>>
    /\ UNCHANGED <<driverVars, targetVars, patternVars, timeoutVars,
                   parseVars, refVars, gammaVars, cctVars, tfVars, doviVars,
                   nJobs, measVars, appVars, procVars, genVars, ctlVars,
                   scaleVars>>

\* The driver takes a command: a DoReading ends, with a result, a failure
\* or the timeout, in SpotreadDoneMeasuring sent to the job worker; Exit ends
\* the driver.
JobDriverHandle ==
    /\ drv = "running"
    /\ drv_q # <<>>
    /\ IF Head(drv_q) = "DoReading"
       THEN /\ ext_q' = JobTrySend(ext_q, TRUE, "SpotreadDoneMeasuring")
            /\ drv_q' = Tail(drv_q)
            /\ UNCHANGED drv
       ELSE /\ drv' = "ended"
            /\ drv_q' = <<>>
            /\ UNCHANGED ext_q
    /\ UNCHANGED <<driverVars, targetVars, patternVars, timeoutVars,
                   parseVars, refVars, gammaVars, cctVars, tfVars, doviVars,
                   job_tx, processing, nJobs, measVars, appVars, procVars,
                   genVars, ctlVars, scaleVars>>

\* A "Diagnostic" line on stderr ends the driver; its receiver is dropped.
JobDriverDiagnostic ==
    /\ drv = "running"
    /\ drv' = "ended"
    /\ drv_q' = <<>>
    /\ UNCHANGED <<driverVars, targetVars, patternVars, timeoutVars,
                   parseVars, refVars, gammaVars, cctVars, tfVars, doviVars,
                   ext_q, job_tx, processing, nJobs, measVars, appVars,
                   procVars, genVars, ctlVars, scaleVars>>

NextJobs ==
    \/ JobAppRequest
    \/ JobHandle
    \/ JobDriverHandle
    \/ JobDriverDiagnostic

SpecJobs == Init /\ [][NextJobs]_vars

\* The job worker and the driver are tasks of the runtime: each takes a
\* waiting command; the app and the tool are free to do nothing.
LiveSpecJobs ==
    /\ Init
    /\ [][NextJobs]_vars
    /\ WF_vars(JobHandle)
    /\ WF_vars(JobDriverHandle)

\* --------------------------------------- try_measure and a responsive tool
\* A stdout line with the DoReading whose trigger newline made the tool
\* print it (0: printed without a trigger).
MsLine(k, c) == [k |-> k, of |-> c]

\* What the tool prints for one trigger: the reading, then the prompt for
\* the next one, with or without other text before the reading.
MsResponses(c) ==
    {<<MsLine("result", c), MsLine("prompt", c)>>,
     <<MsLine("other", c), MsLine("result", c), MsLine("prompt", c)>>}

MsAnyPrompt(lines) == \E i \in 1..Len(lines) : lines[i].k = "prompt"

\* The result lines of a chunk, in order.
MsResults(lines) == SelectSeq(lines, LAMBDA l : l.k = "result")

\* The tool prints the next line of its output.
MsToolPrint ==
    /\ ms_todo # <<>>
    /\ ms_out' = Append(ms_out, Head(ms_todo))
    /\ ms_todo' = Tail(ms_todo)
    /\ UNCHANGED <<driverVars, targetVars, patternVars, timeoutVars,
                   parseVars, refVars, gammaVars, cctVars, tfVars, doviVars,
                   jobVars, ms_pc, ms_cur, ms_flag, ms_chunk, ms_emitted,
                   ms_trig, ms_since, ms_n, appVars, procVars, genVars,
                   ctlVars, scaleVars>>

\* The driver takes a DoReading from its channel; the pattern is sent.
MsTakeCmd ==
    /\ ms_pc = "Idle"
    /\ ms_n < MaxCmds
    /\ ms_n' = ms_n + 1
    /\ ms_cur' = ms_n + 1
    /\ ms_trig' = 0
    /\ ms_pc' = "Begin"
    /\ UNCHANGED <<driverVars, targetVars, patternVars, timeoutVars,
                   parseVars, refVars, gammaVars, cctVars, tfVars, doviVars,
                   jobVars, ms_flag, ms_out, ms_todo, ms_chunk, ms_emitted,
                   ms_since, appVars, procVars, genVars, ctlVars, scaleVars>>

\* Fault injection in MsBegin: the trigger newline is written whether or
\* not can_take_reading is set.
MsBeginAlwaysTriggers ==
    /\ ms_pc = "Begin"
    /\ ms_flag' = FALSE
    /\ ms_trig' = ms_trig + 1
    /\ ms_since' = FALSE
    /\ \E r \in MsResponses(ms_cur) : ms_todo' = ms_todo \o r
    /\ ms_pc' = "Read"
    /\ UNCHANGED <<driverVars, targetVars, patternVars, timeoutVars,
                   parseVars, refVars, gammaVars, cctVars, tfVars, doviVars,
                   jobVars, ms_cur, ms_out, ms_chunk, ms_emitted, ms_n,
                   appVars, procVars, genVars, ctlVars, scaleVars>>

\* try_measure up to its first read: with can_take_reading set the flag is
\* cleared and the trigger newline written.
MsBegin ==
    /\ ms_pc = "Begin"
    /\ IF ms_flag
       THEN /\ ms_flag' = FALSE
            /\ ms_trig' = ms_trig + 1
            /\ ms_since' = FALSE
            /\ \E r \in MsResponses(ms_cur) : ms_todo' = ms_todo \o r
            /\ ms_pc' = "Read"
       ELSE /\ ms_pc' = "Sync"
            /\ UNCHANGED <<ms_flag, ms_trig, ms_since, ms_todo>>
    /\ UNCHANGED <<driverVars, targetVars, patternVars, timeoutVars,
                   parseVars, refVars, gammaVars, cctVars, tfVars, doviVars,
                   jobVars, ms_cur, ms_out, ms_chunk, ms_emitted, ms_n,
                   appVars, procVars, genVars, ctlVars, scaleVars>>

\* "Flush stdout until we can read": one chunk; the trigger newline is
\* written if one of its lines contains the prompt.
MsSyncRead ==
    /\ ms_pc = "Sync"
    /\ \E k \in 1..Len(ms_out) :
          /\ ms_out' = SubSeq(ms_out, k + 1, Len(ms_out))
          /\ ms_chunk' = SubSeq(ms_out, 1, k)
          /\ IF MsAnyPrompt(SubSeq(ms_out, 1, k))
             THEN /\ ms_trig' = ms_trig + 1
                  /\ ms_since' = FALSE
                  /\ \E r \in MsResponses(ms_cur) : ms_todo' = ms_todo \o r
             ELSE UNCHANGED <<ms_trig, ms_since, ms_todo>>
    /\ ms_pc' = "Read"
    /\ UNCHANGED <<driverVars, targetVars, patternVars, timeoutVars,
                   parseVars, refVars, gammaVars, cctVars, tfVars, doviVars,
                   jobVars, ms_cur, ms_flag, ms_emitted, ms_n, appVars,
                   procVars, genVars, ctlVars, scaleVars>>

\* "Read result and rest of stdout buffer": one chunk; every result line is
\* sent as SpotreadRes(Some) with the target of the DoReading being handled,
\* a prompt line sets can_take_reading.
MsResultRead ==
    /\ ms_pc = "Read"
    /\ \E k \in 1..Len(ms_out) :
          LET lines == SubSeq(ms_out, 1, k)
              res == MsResults(lines)
          IN  /\ ms_out' = SubSeq(ms_out, k + 1, Len(ms_out))
              /\ ms_chunk' = lines
              /\ ms_emitted' = ms_emitted \o
                     [i \in 1..Len(res) |-> [cmd |-> ms_cur, of |-> res[i].of]]
              /\ ms_flag' = (ms_flag \/ MsAnyPrompt(lines))
              /\ ms_since' = (ms_since \/ MsAnyPrompt(lines))
    /\ ms_pc' = "Idle"
    /\ ms_cur' = 0
    /\ UNCHANGED <<driverVars, targetVars, patternVars, timeoutVars,
                   parseVars, refVars, gammaVars, cctVars, tfVars, doviVars,
                   jobVars, ms_todo, ms_trig, ms_n, appVars, procVars,
                   genVars, ctlVars, scaleVars>>

\* tokio::time::timeout(.., try_measure) elapses while try_measure waits in
\* one of its reads.
MsTimeout ==
    /\ ms_pc \in {"Sync", "Read"}
    /\ ms_pc' = "Idle"
    /\ ms_cur' = 0
    /\ UNCHANGED <<driverVars, targetVars, patternVars, timeoutVars,
                   parseVars, refVars, gammaVars, cctVars, tfVars, doviVars,
                   jobVars, ms_flag, ms_out, ms_todo, ms_chunk, ms_emitted,
                   ms_trig, ms_since, ms_n, appVars, procVars, genVars,
                   ctlVars, scaleVars>>

NextMeasure ==
    \/ MsToolPrint
    \/ MsTakeCmd
    \/ MsBegin
    \/ MsSyncRead
    \/ MsResultRead
    \/ MsTimeout

SpecMeasure == Init /\ [][NextMeasure]_vars

\* ------------------------------------------- the app's patch measurements
\* The patches of the list, each with a colour of its own.
Patches == 1..MaxPatches

\* The app's fields and the channels it sends on, as one value for
\* check_responses to fold over.
AppState ==
    [started |-> ap_started, auto |-> ap_auto, sel |-> ap_sel,
     res |-> ap_res, processing |-> ap_processing,
     extq |-> ap_extq, ctlq |-> ap_ctlq]

\* calibration_send_measure_selected_patch: the selected patch's colour is
\* sent to the job worker, if a patch is selected.
SendMeasureSelected(s) ==
    IF s.sel \in Patches
    THEN [s EXCEPT !.extq = JobTrySend(s.extq, TRUE,
                                [t |-> "SpotreadMeasure", p |-> s.sel])]
    ELSE s

\* PGenApp::set_blank
SetBlank(s) == [s EXCEPT !.ctlq = JobTrySend(s.ctlq, TRUE, "SetBlank")]

\* Fault injection in HandleSpotreadResult: the selection advances after
\* the last patch as well.
HandleSpotreadResultAdvancesPastEnd(s, result) ==
    IF result # 0
    THEN LET stored == IF s.sel \in Patches
                       THEN [s EXCEPT !.res[s.sel] = result]
                       ELSE s
             can_advance == stored.auto /\ stored.sel \in Patches
         IN  IF can_advance
             THEN SendMeasureSelected([stored EXCEPT !.sel = stored.sel + 1])
             ELSE SetBlank([stored EXCEPT !.started = FALSE])
    ELSE SetBlank([s EXCEPT !.started = FALSE])

\* Fault injection in HandleSpotreadResult: after None the selected patch is
\* requested again.
HandleSpotreadResultRetriesOnNone(s, result) ==
    IF result # 0
    THEN LET stored == IF s.sel \in Patches
                       THEN [s EXCEPT !.res[s.sel] = result]
                       ELSE s
             can_advance == stored.auto /\ stored.sel \in Patches
                                /\ stored.sel < MaxPatches
         IN  IF can_advance
             THEN SendMeasureSelected([stored EXCEPT !.sel = stored.sel + 1])
             ELSE SetBlank([stored EXCEPT !.started = FALSE])
    ELSE SendMeasureSelected(s)

\* handle_spotread_result
HandleSpotreadResult(s, result) ==
    IF result # 0
    THEN LET stored == IF s.sel \in Patches
                       THEN [s EXCEPT !.res[s.sel] = result]
                       ELSE s
             can_advance == stored.auto /\ stored.sel \in Patches
                                /\ stored.sel < MaxPatches
         IN  IF can_advance
             THEN SendMeasureSelected([stored EXCEPT !.sel = stored.sel + 1])
             ELSE SetBlank([stored EXCEPT !.started = FALSE])
    ELSE SetBlank([s EXCEPT !.started = FALSE])

\* One message of the app's channel.
HandleUpdate(s, msg) ==
    CASE msg.t = "Processing" -> [s EXCEPT !.processing = TRUE]
      [] msg.t = "DoneProcessing" -> [s EXCEPT !.processing = FALSE]
      [] msg.t = "SpotreadRes" -> HandleSpotreadResult(s, msg.p)

RECURSIVE CheckResponses(_, _)
\* check_responses: every message that is in the channel is handled.
CheckResponses(s, q) ==
    IF q = <<>> THEN s ELSE CheckResponses(HandleUpdate(s, Head(q)), Tail(q))

\* The app's fields and channels take the values of s.
AppBecomes(s) ==
    /\ ap_started' = s.started
    /\ ap_auto' = s.auto
    /\ ap_sel' = s.sel
    /\ ap_res' = s.res
    /\ ap_processing' = s.processing
    /\ ap_extq' = s.extq
    /\ ap_ctlq' = s.ctlq

\* A frame of the app starts: the channel is drained.
AppCheckResponses ==
    /\ ap_rx # <<>>
    /\ AppBecomes(CheckResponses(AppState, ap_rx))
    /\ ap_rx' = <<>>
    /\ UNCHANGED <<ap_cont, ap_drvq, ap_drv, ap_n>>
    /\ UNCHANGED <<driverVars, targetVars, patternVars, timeoutVars,
                   parseVars, refVars, gammaVars, cctVars, tfVars, doviVars,
                   jobVars, measVars, procVars, genVars, ctlVars, scaleVars>>

\* add_patches_info_right_side: the PGenerator is connected and spotread
\* started throughout; the list is never empty.
CanReadPatches == ~ap_processing /\ ~ap_started

\* "Measure patches"
AppMeasurePatches ==
    /\ CanReadPatches
    /\ ap_n < MaxClicks
    /\ ap_n' = ap_n + 1
    /\ AppBecomes(SendMeasureSelected(
           [AppState EXCEPT !.started = TRUE, !.auto = TRUE, !.sel = 1]))
    /\ UNCHANGED <<ap_cont, ap_rx, ap_drvq, ap_drv>>
    /\ UNCHANGED <<driverVars, targetVars, patternVars, timeoutVars,
                   parseVars, refVars, gammaVars, cctVars, tfVars, doviVars,
                   jobVars, measVars, procVars, genVars, ctlVars, scaleVars>>

\* "Measure selected patch"
AppMeasureSelected ==
    /\ CanReadPatches
    /\ ap_sel \in Patches
    /\ ap_n < MaxClicks
    /\ ap_n' = ap_n + 1
    /\ AppBecomes(SendMeasureSelected(
           [AppState EXCEPT !.started = TRUE, !.auto = FALSE]))
    /\ UNCHANGED <<ap_cont, ap_rx, ap_drvq, ap_drv>>
    /\ UNCHANGED <<driverVars, targetVars, patternVars, timeoutVars,
                   parseVars, refVars, gammaVars, cctVars, tfVars, doviVars,
                   jobVars, measVars, procVars, genVars, ctlVars, scaleVars>>

\* The "Continuous" checkbox
AppToggleContinuous ==
    /\ CanReadPatches
    /\ ap_sel \in Patches
    /\ ap_cont' = ~ap_cont
    /\ UNCHANGED <<ap_started, ap_auto, ap_sel, ap_res, ap_processing,
                   ap_rx, ap_extq, ap_ctlq, ap_drvq, ap_drv, ap_n>>
    /\ UNCHANGED <<driverVars, targetVars, patternVars, timeoutVars,
                   parseVars, refVars, gammaVars, cctVars, tfVars, doviVars,
                   jobVars, measVars, procVars, genVars, ctlVars, scaleVars>>

\* "Stop measuring"
AppStopMeasuring ==
    /\ ap_started
    /\ ap_auto \/ ap_cont
    /\ ap_started' = FALSE
    /\ ap_auto' = FALSE
    /\ UNCHANGED <<ap_cont, ap_sel, ap_res, ap_processing,
                   ap_rx, ap_extq, ap_ctlq, ap_drvq, ap_drv, ap_n>>
    /\ UNCHANGED <<driverVars, targetVars, patternVars, timeoutVars,
                   parseVars, refVars, gammaVars, cctVars, tfVars, doviVars,
                   jobVars, measVars, procVars, genVars, ctlVars, scaleVars>>

\* A row of the patch list is clicked: it is selected, or deselected if it
\* was the selected one.
AppClickRow ==
    /\ ~ap_started
    /\ \E i \in Patches : ap_sel' = IF ap_sel = i THEN 0 ELSE i
    /\ UNCHANGED <<ap_started, ap_auto, ap_cont, ap_res, ap_processing,
                   ap_rx, ap_extq, ap_ctlq, ap_drvq, ap_drv, ap_n>>
    /\ UNCHANGED <<driverVars, targetVars, patternVars, timeoutVars,
                   parseVars, refVars, gammaVars, cctVars, tfVars, doviVars,
                   jobVars, measVars, procVars, genVars, ctlVars, scaleVars>>

\* "Clear results", shown while a patch has a result.
AppClearResults ==
    /\ \E i \in Patches : ap_res[i] # 0
    /\ ap_sel' = 0
    /\ ap_res' = [i \in Patches |-> 0]
    /\ UNCHANGED <<ap_started, ap_auto, ap_cont, ap_processing,
                   ap_rx, ap_extq, ap_ctlq, ap_drvq, ap_drv, ap_n>>
    /\ UNCHANGED <<driverVars, targetVars, patternVars, timeoutVars,
                   parseVars, refVars, gammaVars, cctVars, tfVars, doviVars,
                   jobVars, measVars, procVars, genVars, ctlVars, scaleVars>>

\* One turn of the job worker: Processing, then SpotreadMeasure is passed
\* to the driver and SpotreadDoneMeasuring answered with DoneProcessing.
AppJobWorker ==
    /\ ap_extq # <<>>
    /\ LET cmd == Head(ap_extq)
           rx1 == JobTrySend(ap_rx, TRUE, [t |-> "Processing", p |-> 0])
       IN  /\ ap_extq' = Tail(ap_extq)
           /\ IF cmd.t = "SpotreadMeasure"
              THEN /\ ap_drvq' = JobTrySend(ap_drvq, TRUE, cmd.p)
                   /\ ap_rx' = rx1
              ELSE /\ ap_rx' = JobTrySend(rx1, TRUE,
                                   [t |-> "DoneProcessing", p |-> 0])
                   /\ UNCHANGED ap_drvq
    /\ UNCHANGED <<ap_started, ap_auto, ap_cont, ap_sel, ap_res,
                   ap_processing, ap_ctlq, ap_drv, ap_n>>
    /\ UNCHANGED <<driverVars, targetVars, patternVars, timeoutVars,
                   parseVars, refVars, gammaVars, cctVars, tfVars, doviVars,
                   jobVars, measVars, procVars, genVars, ctlVars, scaleVars>>

\* The driver takes a DoReading and displays its pattern.
AppDriverTake ==
    /\ ap_drv = 0
    /\ ap_drvq # <<>>
    /\ ap_drv' = Head(ap_drvq)
    /\ ap_drvq' = Tail(ap_drvq)
    /\ UNCHANGED <<ap_started, ap_auto, ap_cont, ap_sel, ap_res,
                   ap_processing, ap_rx, ap_extq, ap_ctlq, ap_n>>
    /\ UNCHANGED <<driverVars, targetVars, patternVars, timeoutVars,
                   parseVars, refVars, gammaVars, cctVars, tfVars, doviVars,
                   jobVars, measVars, procVars, genVars, ctlVars, scaleVars>>

\* The measurement ends: SpotreadRes with the reading of the displayed
\* pattern or with None, then SpotreadDoneMeasuring.
AppDriverDone ==
    /\ ap_drv # 0
    /\ \E r \in {0, ap_drv} :
          ap_rx' = JobTrySend(ap_rx, TRUE, [t |-> "SpotreadRes", p |-> r])
    /\ ap_extq' = JobTrySend(ap_extq, TRUE,
                             [t |-> "SpotreadDoneMeasuring", p |-> 0])
    /\ ap_drv' = 0
    /\ UNCHANGED <<ap_started, ap_auto, ap_cont, ap_sel, ap_res,
                   ap_processing, ap_ctlq, ap_drvq, ap_n>>
    /\ UNCHANGED <<driverVars, targetVars, patternVars, timeoutVars,
                   parseVars, refVars, gammaVars, cctVars, tfVars, doviVars,
                   jobVars, measVars, procVars, genVars, ctlVars, scaleVars>>

\* One command of the controller's loop: Processing, the command,
\* DoneProcessing.
AppController ==
    /\ ap_ctlq # <<>>
    /\ ap_ctlq' = Tail(ap_ctlq)
    /\ ap_rx' = JobTrySend(
                    JobTrySend(ap_rx, TRUE, [t |-> "Processing", p |-> 0]),
                    TRUE, [t |-> "DoneProcessing", p |-> 0])
    /\ UNCHANGED <<ap_started, ap_auto, ap_cont, ap_sel, ap_res,
                   ap_processing, ap_extq, ap_drvq, ap_drv, ap_n>>
    /\ UNCHANGED <<driverVars, targetVars, patternVars, timeoutVars,
                   parseVars, refVars, gammaVars, cctVars, tfVars, doviVars,
                   jobVars, measVars, procVars, genVars, ctlVars, scaleVars>>

NextApp ==
    \/ AppCheckResponses
    \/ AppMeasurePatches
    \/ AppMeasureSelected
    \/ AppToggleContinuous
    \/ AppStopMeasuring
    \/ AppClickRow
    \/ AppClearResults
    \/ AppJobWorker
    \/ AppDriverTake
    \/ AppDriverDone
    \/ AppController

SpecApp == Init /\ [][NextApp]_vars

\* ------------------------------------- the job worker and its subprocesses
\* The drivers start_spotread_worker can create, in the order created.
Procs == 1..MaxProcs

\* try_send on a driver's channel: refused when the channel is full or the
\* driver's task, which holds the receiver, has ended.
PrTrySend(d, c) ==
    IF pr_st[d] = "running" /\ Len(pr_q[d]) < ChannelCap
    THEN [pr_q EXCEPT ![d] = Append(@, c)]
    ELSE pr_q

\* StartSpotreadProcess, the start succeeds: a child is spawned, the
\* handshake passes and a driver task is spawned; the new sender replaces
\* the one held and SpotreadStarted(true) is sent.
PrStartOk ==
    /\ pr_n < MaxProcCmds
    /\ pr_made < MaxProcs
    /\ pr_n' = pr_n + 1
    /\ pr_made' = pr_made + 1
    /\ pr_st' = [pr_st EXCEPT ![pr_made + 1] = "running"]
    /\ pr_child' = [pr_child EXCEPT ![pr_made + 1] = TRUE]
    /\ pr_tx' = pr_made + 1
    /\ pr_started' = TRUE
    /\ pr_stopped' = FALSE
    /\ UNCHANGED pr_q
    /\ UNCHANGED <<driverVars, targetVars, patternVars, timeoutVars,
                   parseVars, refVars, gammaVars, cctVars, tfVars, doviVars,
                   jobVars, measVars, appVars, genVars, ctlVars, scaleVars>>

\* StartSpotreadProcess, the start fails: the spawn fails, or a Diagnostic
\* line ends the handshake, the child is waited for and
\* SpotreadStarted(false) sent.  The sender held is kept.
PrStartErr ==
    /\ pr_n < MaxProcCmds
    /\ pr_n' = pr_n + 1
    /\ \E diagnostic \in BOOLEAN :
          pr_started' = IF diagnostic THEN FALSE ELSE pr_started
    /\ pr_stopped' = FALSE
    /\ UNCHANGED <<pr_made, pr_st, pr_child, pr_tx, pr_q>>
    /\ UNCHANGED <<driverVars, targetVars, patternVars, timeoutVars,
                   parseVars, refVars, gammaVars, cctVars, tfVars, doviVars,
                   jobVars, measVars, appVars, genVars, ctlVars, scaleVars>>

\* StopSpotreadProcess: the sender is taken and Exit sent on it, or
\* SpotreadStarted(false) is sent when none was held.
PrStop ==
    /\ pr_n < MaxProcCmds
    /\ pr_n' = pr_n + 1
    /\ IF pr_tx # 0
       THEN /\ pr_q' = PrTrySend(pr_tx, "Exit")
            /\ pr_tx' = 0
            /\ UNCHANGED pr_started
       ELSE /\ pr_started' = FALSE
            /\ UNCHANGED <<pr_q, pr_tx>>
    /\ pr_stopped' = TRUE
    /\ UNCHANGED <<pr_made, pr_st, pr_child>>
    /\ UNCHANGED <<driverVars, targetVars, patternVars, timeoutVars,
                   parseVars, refVars, gammaVars, cctVars, tfVars, doviVars,
                   jobVars, measVars, appVars, genVars, ctlVars, scaleVars>>

\* SpotreadMeasure: DoReading is sent on the sender held, if any.
PrMeasure ==
    /\ pr_n < MaxProcCmds
    /\ pr_n' = pr_n + 1
    /\ pr_q' = IF pr_tx # 0 THEN PrTrySend(pr_tx, "DoReading") ELSE pr_q
    /\ UNCHANGED <<pr_made, pr_st, pr_child, pr_tx, pr_started, pr_stopped>>
    /\ UNCHANGED <<driverVars, targetVars, patternVars, timeoutVars,
                   parseVars, refVars, gammaVars, cctVars, tfVars, doviVars,
                   jobVars, measVars, appVars, genVars, ctlVars, scaleVars>>

\* A driver takes a command: a DoReading is measured; Exit quits the tool,
\* waits for it, sends SpotreadStarted(false) and ends the task.
PrDriverTake(d) ==
    /\ pr_st[d] = "running"
    /\ pr_q[d] # <<>>
    /\ IF Head(pr_q[d]) = "Exit"
       THEN /\ pr_st' = [pr_st EXCEPT ![d] = "ended"]
            /\ pr_child' = [pr_child EXCEPT ![d] = FALSE]
            /\ pr_q' = [pr_q EXCEPT ![d] = <<>>]
            /\ pr_started' = FALSE
       ELSE /\ pr_q' = [pr_q EXCEPT ![d] = Tail(@)]
            /\ UNCHANGED <<pr_st, pr_child, pr_started>>
    /\ UNCHANGED <<pr_made, pr_tx, pr_stopped, pr_n>>
    /\ UNCHANGED <<driverVars, targetVars, patternVars, timeoutVars,
                   parseVars, refVars, gammaVars, cctVars, tfVars, doviVars,
                   jobVars, measVars, appVars, genVars, ctlVars, scaleVars>>

PrDriverTakes == \E d \in Procs : PrDriverTake(d)

\* A driver reads a Diagnostic line: the child is waited for,
\* SpotreadStarted(false) sent and the task ends.
PrDriverDiagnostic ==
    /\ \E d \in Procs :
          /\ pr_st[d] = "running"
          /\ pr_child[d]
          /\ pr_st' = [pr_st EXCEPT ![d] = "ended"]
          /\ pr_child' = [pr_child EXCEPT ![d] = FALSE]
          /\ pr_q' = [pr_q EXCEPT ![d] = <<>>]
    /\ pr_started' = FALSE
    /\ UNCHANGED <<pr_made, pr_tx, pr_stopped, pr_n>>
    /\ UNCHANGED <<driverVars, targetVars, patternVars, timeoutVars,
                   parseVars, refVars, gammaVars, cctVars, tfVars, doviVars,
                   jobVars, measVars, appVars, genVars, ctlVars, scaleVars>>

\* A child ends by itself without a Diagnostic line; its driver goes on.
PrChildExit ==
    /\ \E d \in Procs :
          /\ pr_child[d]
          /\ pr_child' = [pr_child EXCEPT ![d] = FALSE]
    /\ UNCHANGED <<pr_made, pr_st, pr_q, pr_tx, pr_started, pr_stopped, pr_n>>
    /\ UNCHANGED <<driverVars, targetVars, patternVars, timeoutVars,
                   parseVars, refVars, gammaVars, cctVars, tfVars, doviVars,
                   jobVars, measVars, appVars, genVars, ctlVars, scaleVars>>

NextProc ==
    \/ PrStartOk
    \/ PrStartErr
    \/ PrStop
    \/ PrMeasure
    \/ PrDriverTakes
    \/ PrDriverDiagnostic
    \/ PrChildExit

SpecProc == Init /\ [][NextProc]_vars

\* Each driver is a task of the runtime and takes a waiting command; the
\* tool quits when told to.
LiveSpecProc ==
    /\ Init
    /\ [][NextProc]_vars
    /\ \A d \in Procs : WF_vars(PrDriverTake(d))

\* ------------------------------------------------ the TCP generator client
\* TcpGeneratorClient::shutdown on a stream: what was readable for good
\* (end of file, a reset connection) stays readable, pending data was
\* consumed by the failed read.
GcAfterRead(stream) == IF stream = "data" THEN "open" ELSE stream

\* try_send on the job worker's channel.
GcSendStopped(q) == JobTrySend(q, TRUE, "StopGeneratorClient")

\* The button of the generator client: stop when the app believes the
\* client to be listening, start otherwise.  The user clicks when the job
\* worker has handled what was sent before.
GcClick ==
    /\ gc_n < MaxGenCmds
    /\ gc_extq = <<>>
    /\ gc_n' = gc_n + 1
    /\ gc_extq' = JobTrySend(gc_extq, TRUE,
                      IF gc_listening THEN "StopGeneratorClient"
                                      ELSE "StartGeneratorClient")
    /\ UNCHANGED <<gc_task, gc_running, gc_stream, gc_q, gc_tx, gc_listening>>
    /\ UNCHANGED <<driverVars, targetVars, patternVars, timeoutVars,
                   parseVars, refVars, gammaVars, cctVars, tfVars, doviVars,
                   jobVars, measVars, appVars, procVars, ctlVars, scaleVars>>

\* The job worker handles StartGeneratorClient: the connection is tried; on
\* success the client task is spawned and its sender kept;
\* GeneratorListening(true) is sent if a sender is held.
GcWorkerStart ==
    /\ gc_extq # <<>>
    /\ Head(gc_extq) = "StartGeneratorClient"
    /\ gc_extq' = Tail(gc_extq)
    /\ \/ /\ gc_task' = "running"
          /\ gc_running' = TRUE
          /\ gc_stream' = "open"
          /\ gc_q' = <<>>
          /\ gc_tx' = TRUE
          /\ gc_listening' = TRUE
       \/ /\ gc_listening' = (gc_listening \/ gc_tx)
          /\ UNCHANGED <<gc_task, gc_running, gc_stream, gc_q, gc_tx>>
    /\ UNCHANGED gc_n
    /\ UNCHANGED <<driverVars, targetVars, patternVars, timeoutVars,
                   parseVars, refVars, gammaVars, cctVars, tfVars, doviVars,
                   jobVars, measVars, appVars, procVars, ctlVars, scaleVars>>

\* The job worker handles StopGeneratorClient: Shutdown is sent on the
\* sender held, which is given up; with none held GeneratorListening(false)
\* is sent.
GcWorkerStop ==
    /\ gc_extq # <<>>
    /\ Head(gc_extq) = "StopGeneratorClient"
    /\ gc_extq' = Tail(gc_extq)
    /\ IF gc_tx
       THEN /\ gc_tx' = FALSE
            /\ gc_q' = JobTrySend(gc_q, gc_task = "running", "Shutdown")
            /\ UNCHANGED gc_listening
       ELSE /\ gc_listening' = FALSE
            /\ UNCHANGED <<gc_tx, gc_q>>
    /\ UNCHANGED <<gc_task, gc_running, gc_stream, gc_n>>
    /\ UNCHANGED <<driverVars, targetVars, patternVars, timeoutVars,
                   parseVars, refVars, gammaVars, cctVars, tfVars, doviVars,
                   jobVars, measVars, appVars, procVars, ctlVars, scaleVars>>

\* The peer sends something that is no complete message ("data"), closes
\* the connection ("eof") or the connection breaks ("reset").
GcPeer ==
    /\ gc_task = "running"
    /\ gc_stream = "open"
    /\ gc_stream' \in {"data", "eof", "reset"}
    /\ UNCHANGED <<gc_task, gc_running, gc_q, gc_tx, gc_extq, gc_listening,
                   gc_n>>
    /\ UNCHANGED <<driverVars, targetVars, patternVars, timeoutVars,
                   parseVars, refVars, gammaVars, cctVars, tfVars, doviVars,
                   jobVars, measVars, appVars, procVars, ctlVars, scaleVars>>

\* select! branch on stream.readable(): the loop is left when running is
\* false; otherwise the message is read and its error handled: an
\* incomplete message or end of file shuts the stream down and reports the
\* generator stopped, another error reconnects and reports only if that
\* fails.
GcReadable ==
    /\ gc_task = "running"
    /\ gc_stream # "open"
    /\ IF ~gc_running
       THEN /\ gc_task' = "ended"
            /\ UNCHANGED <<gc_running, gc_stream, gc_extq>>
       ELSE IF gc_stream \in {"data", "eof"}
       THEN /\ gc_running' = FALSE
            /\ gc_stream' = GcAfterRead(gc_stream)
            /\ gc_extq' = GcSendStopped(gc_extq)
            /\ UNCHANGED gc_task
       ELSE \/ /\ gc_stream' = "open"
               /\ UNCHANGED <<gc_task, gc_running, gc_extq>>
            \/ /\ gc_running' = FALSE
               /\ gc_extq' = GcSendStopped(gc_extq)
               /\ UNCHANGED <<gc_task, gc_stream>>
    /\ UNCHANGED <<gc_q, gc_tx, gc_listening, gc_n>>
    /\ UNCHANGED <<driverVars, targetVars, patternVars, timeoutVars,
                   parseVars, refVars, gammaVars, cctVars, tfVars, doviVars,
                   jobVars, measVars, appVars, procVars, ctlVars, scaleVars>>

\* select! branch on the client's channel: Shutdown shuts the stream down,
\* sends GeneratorListening(false) and leaves the loop.
GcTakeShutdown ==
    /\ gc_task = "running"
    /\ gc_q # <<>>
    /\ gc_q' = <<>>
    /\ gc_running' = FALSE
    /\ gc_listening' = FALSE
    /\ gc_task' = "ended"
    /\ UNCHANGED <<gc_stream, gc_tx, gc_extq, gc_n>>
    /\ UNCHANGED <<driverVars, targetVars, patternVars, timeoutVars,
                   parseVars, refVars, gammaVars, cctVars, tfVars, doviVars,
                   jobVars, measVars, appVars, procVars, ctlVars, scaleVars>>

NextGen ==
    \/ GcClick
    \/ GcWorkerStart
    \/ GcWorkerStop
    \/ GcPeer
    \/ GcReadable
    \/ GcTakeShutdown

SpecGen == Init /\ [][NextGen]_vars

\* The job worker and the client are tasks of the runtime; the user and
\* the peer are free to do nothing.
LiveSpecGen ==
    /\ Init
    /\ [][NextGen]_vars
    /\ WF_vars(GcWorkerStart)
    /\ WF_vars(GcWorkerStop)
    /\ WF_vars(GcReadable)
    /\ WF_vars(GcTakeShutdown)

\* ------------------------------------- the controller and the PGenerator
\* What a TCP exchange with the device can give: an error (a failed write, a
\* timeout), the answer the command expects ("ALIVE", "OK:"), an empty
\* answer, any other answer.
TcpOutcomes == {"err", "expected", "empty", "other"}

\* What TcpStream::connect and peer_addr can give in set_stream.
ConnectOutcomes == {"ok", "refused", "nopeer"}

CtlCmd(k, c) == [k |-> k, c |-> c]

AppMsg(t, c, r) == [t |-> t, c |-> c, r |-> r]

\* try_send on a bounded channel: dropped when the channel is full.
CtlTrySend(q, cap, msg) == IF Len(q) < cap THEN Append(q, msg) ELSE q

\* PGenClient::send_tcp_command: without a stream the answer is the text
\* "Not connected to TCP socket".
ClTcp(stream, o) == IF stream THEN o ELSE "other"

ClSetSocketAddress(cl) == [cl EXCEPT !.connected = FALSE]

ClSendHeartbeat(cl, o) ==
    [cl EXCEPT !.connected = (ClTcp(cl.stream, o) = "expected")]

\* PGenClient::disconnect: QUIT is sent only when connected; an answer that
\* is not empty means still connected, an error changes nothing.
ClDisconnect(cl, o) ==
    LET res == IF cl.connected THEN ClTcp(cl.stream, o) ELSE "empty"
    IN  IF res = "err" THEN cl
        ELSE IF res # "empty" THEN [cl EXCEPT !.connected = TRUE]
        ELSE [stream |-> FALSE, connected |-> FALSE]

\* PGenClient::set_stream: a stream held is disconnected first; the new
\* stream is kept once TcpStream::connect succeeded.
ClSetStream(cl, o, ok) ==
    LET d == IF cl.stream THEN ClDisconnect(cl, o) ELSE cl
    IN  IF ok = "refused" THEN d ELSE [d EXCEPT !.stream = TRUE]

ClConnect(cl, o, ok, hb) ==
    ClSendHeartbeat(ClSetStream([cl EXCEPT !.connected = FALSE], o, ok), hb)

ClShutdownDeviceKeepsFlag(cl, o) ==
    IF ClTcp(cl.stream, o) = "expected"
    THEN [cl EXCEPT !.stream = FALSE]
    ELSE cl

ClShutdownDevice(cl, o) ==
    IF ClTcp(cl.stream, o) = "expected"
    THEN [stream |-> FALSE, connected |-> FALSE]
    ELSE cl

ClRebootDevice(cl, o) ==
    IF ClTcp(cl.stream, o) = "expected"
    THEN [stream |-> FALSE, connected |-> FALSE]
    ELSE cl

\* PGenClient::send_generic_command: the client after the command and the
\* kind of PGenCommandResponse ("State" stands for Connect, Quit, Shutdown
\* and Reboot, which carry the client's connect_state).
SendGenericCommand(cl, cmd, o, ok, hb) ==
    IF ~cl.stream /\ cmd # "Connect"
    THEN IF cmd = "UpdateSocket"
         THEN [cl |-> ClSetSocketAddress(cl), res |-> "Ok"]
         ELSE [cl |-> cl, res |-> "NotConnected"]
    ELSE CASE cmd = "IsAlive" ->
                [cl |-> ClSendHeartbeat(cl, o), res |-> "Alive"]
           [] cmd = "Connect" ->
                [cl |-> ClConnect(cl, o, ok, hb), res |-> "State"]
           [] cmd = "Quit" ->
                [cl |-> ClDisconnect(cl, o), res |-> "State"]
           [] cmd = "Shutdown" ->
                [cl |-> ClShutdownDevice(cl, o), res |-> "State"]
           [] cmd = "Reboot" ->
                [cl |-> ClRebootDevice(cl, o), res |-> "State"]
           [] cmd = "UpdateSocket" ->
                [cl |-> ClConnect(ClSetSocketAddress(cl), o, ok, hb),
                 res |-> "State"]
           [] cmd = "TestPattern" ->
                [cl |-> cl, res |-> "Ok"]
           [] cmd = "MultipleGetConfCommands" ->
                [cl |-> cl,
                 res |-> IF ClTcp(cl.stream, o) = "err" THEN "Errored"
                                                        ELSE "GetConf"]

\* PGenController::handle_pgen_response on the controller st (the client
\* cl, the flag connected, lost, the app's channel appq): the flag is
\* written from the response, the new state is sent to the app when it
\* counts as updated.  r says that the output configuration read back has
\* another quantisation range than the app's.
HandlePgenResponse(st, cl, res, r) ==
    LET updated == IF res = "Alive" THEN cl.connected # st.connected
                   ELSE res # "Ok"
        conn == CASE res = "NotConnected" -> FALSE
                  [] res \in {"Alive", "State"} -> cl.connected
                  [] OTHER -> st.connected
        lost == CASE res = "NotConnected" -> TRUE
                  [] res \in {"Alive", "State"} -> ~cl.connected
                  [] OTHER -> st.lost
    IN  [cl |-> cl, connected |-> conn, lost |-> lost,
         appq |-> IF updated
                  THEN CtlTrySend(st.appq, MaxAppQ,
                           AppMsg("NewState", conn, r /\ res = "GetConf"))
                  ELSE st.appq]

PgenCommand(st, cmd, o, ok, hb, r) ==
    LET s == SendGenericCommand(st.cl, cmd, o, ok, hb)
    IN  HandlePgenResponse(st, s.cl, s.res, r)

FetchBaseInfo(st, o, r) ==
    IF st.connected
    THEN PgenCommand(st, "MultipleGetConfCommands", o, "ok", o, r)
    ELSE st

\* PGenController::set_blank: a pattern that differs from the current one is
\* stored, announced to the app and sent.
CtlSetBlank(st, differs) ==
    IF differs
    THEN PgenCommand([st EXCEPT !.appq = CtlTrySend(st.appq, MaxAppQ,
                                   AppMsg("NewState", st.connected, FALSE))],
                     "TestPattern", "expected", "ok", "expected", FALSE)
    ELSE st

CtlState ==
    [cl |-> [stream |-> cl_stream, connected |-> cl_connected],
     connected |-> ct_connected, lost |-> ct_lost, appq |-> ct_appq]

CtlRest ==
    <<driverVars, targetVars, patternVars, timeoutVars, parseVars, refVars,
      gammaVars, cctVars, tfVars, doviVars, jobVars, measVars, appVars,
      procVars, genVars, scaleVars>>

CtlBecomes(st) ==
    /\ cl_stream' = st.cl.stream
    /\ cl_connected' = st.cl.connected
    /\ ct_connected' = st.connected
    /\ ct_lost' = st.lost
    /\ ct_appq' = st.appq

\* The command arm of init_command_loop around a command of kind k:
\* Processing is sent, the command handled, DoneProcessing sent.
CtlProcessing(st) ==
    [st EXCEPT !.appq = CtlTrySend(st.appq, MaxAppQ,
                            AppMsg("Processing", FALSE, FALSE))]

CtlDoneProcessing(st) ==
    [st EXCEPT !.appq = CtlTrySend(st.appq, MaxAppQ,
                            AppMsg("DoneProcessing", FALSE, FALSE))]

CtlTakes(k) ==
    /\ ct_q # <<>>
    /\ Head(ct_q).k = k
    /\ ct_q' = Tail(ct_q)
    /\ UNCHANGED <<gui_connected, gui_processing, ct_n, ct_ticks>>
    /\ UNCHANGED CtlRest

\* PGenControllerCmd::UpdateState(state) => controller.state = state
CtlUpdateState ==
    /\ CtlTakes("UpdateState")
    /\ CtlBecomes(CtlDoneProcessing(
           [CtlProcessing(CtlState) EXCEPT !.connected = Head(ct_q).c]))

\* PGenControllerCmd::InitialConnect: Connect, then fetch_base_info.
CtlInitialConnect ==
    /\ CtlTakes("InitialConnect")
    /\ \E ok \in ConnectOutcomes, hb, o \in TcpOutcomes, r \in BOOLEAN :
         CtlBecomes(CtlDoneProcessing(FetchBaseInfo(
             PgenCommand(CtlProcessing(CtlState), "Connect", o, ok, hb,
                         FALSE), o, r)))

\* PGenControllerCmd::UpdateSocket
CtlUpdateSocket ==
    /\ CtlTakes("UpdateSocket")
    /\ \E ok \in ConnectOutcomes, hb, o \in TcpOutcomes :
         CtlBecomes(CtlDoneProcessing(
             PgenCommand(CtlProcessing(CtlState), "UpdateSocket", o, ok, hb,
                         FALSE)))

\* PGenControllerCmd::Disconnect: PGenController::disconnect
CtlDisconnect ==
    /\ CtlTakes("Disconnect")
    /\ \E o \in TcpOutcomes, differs \in BOOLEAN :
         LET st == CtlProcessing(CtlState)
         IN  CtlBecomes(CtlDoneProcessing(
                 IF st.connected
                 THEN PgenCommand(CtlSetBlank(st, differs), "Quit", o, "ok",
                                  o, FALSE)
                 ELSE st))

\* PGenControllerCmd::PGen(Shutdown)
CtlShutdown ==
    /\ CtlTakes("Shutdown")
    /\ \E o \in TcpOutcomes :
         CtlBecomes(CtlDoneProcessing(
             PgenCommand(CtlProcessing(CtlState), "Shutdown", o, "ok", o,
                         FALSE)))

\* PGenControllerCmd::PGen(Reboot)
CtlReboot ==
    /\ CtlTakes("Reboot")
    /\ \E o \in TcpOutcomes :
         CtlBecomes(CtlDoneProcessing(
             PgenCommand(CtlProcessing(CtlState), "Reboot", o, "ok", o,
                         FALSE)))

CtlTick ==
    /\ ct_ticks < MaxTicks
    /\ ct_ticks' = ct_ticks + 1
    /\ UNCHANGED <<ct_q, gui_connected, gui_processing, ct_n>>
    /\ UNCHANGED CtlRest

\* The heartbeat tick: PGenController::send_heartbeat
SendHeartbeat ==
    /\ CtlTick
    /\ \E o \in TcpOutcomes :
         CtlBecomes(IF ct_connected
                    THEN PgenCommand(CtlState, "IsAlive", o, "ok", o, FALSE)
                    ELSE CtlState)

\* The reconnect tick: PGenController::reconnect
Reconnect ==
    /\ CtlTick
    /\ \E ok \in ConnectOutcomes, o, g \in TcpOutcomes, r \in BOOLEAN :
         LET st == CtlState
             s  == ClSetStream(st.cl, o, ok)
         IN  CtlBecomes(
                 IF ~st.cl.connected THEN st
                 ELSE FetchBaseInfo(
                          [st EXCEPT !.cl = IF ok = "ok"
                                            THEN [s EXCEPT !.connected = TRUE]
                                            ELSE s],
                          g, r))

\* The GUI sends a command with try_send.
GuiSends(cmd) ==
    /\ ct_n < MaxCtlCmds
    /\ ct_n' = ct_n + 1
    /\ ct_q' = CtlTrySend(ct_q, MaxCtlQ, cmd)
    /\ UNCHANGED <<cl_stream, cl_connected, ct_connected, ct_lost, ct_appq,
                   gui_connected, gui_processing, ct_ticks>>
    /\ UNCHANGED CtlRest

\* PGenApp::update_controller_state after an edit of the pattern
\* configuration: the app's whole state is sent.
UpdateControllerState == GuiSends(CtlCmd("UpdateState", gui_connected))

\* The buttons of add_default_config, enabled while not processing;
\* Disconnect, Shutdown and Reboot are shown while the app's copy says
\* connected.
GuiConnect == ~gui_processing /\ GuiSends(CtlCmd("InitialConnect", FALSE))

GuiDisconnect ==
    ~gui_processing /\ gui_connected /\ GuiSends(CtlCmd("Disconnect", FALSE))

GuiShutdown ==
    ~gui_processing /\ gui_connected /\ GuiSends(CtlCmd("Shutdown", FALSE))

GuiReboot ==
    ~gui_processing /\ gui_connected /\ GuiSends(CtlCmd("Reboot", FALSE))

GuiUpdateSocket == GuiSends(CtlCmd("UpdateSocket", FALSE))

\* PGenApp::check_responses over what waits in the app's channel: the state
\* of the app gui (connected, processing) and the commands q it sends;
\* update_from_new_state sends the state back when the quantisation range
\* changed.
RECURSIVE GuiDrain(_, _, _)
GuiDrain(msgs, gui, q) ==
    IF msgs = <<>> THEN [gui |-> gui, q |-> q]
    ELSE LET msg == Head(msgs)
         IN  CASE msg.t = "Processing" ->
                    GuiDrain(Tail(msgs), [gui EXCEPT !.processing = TRUE], q)
               [] msg.t = "DoneProcessing" ->
                    GuiDrain(Tail(msgs), [gui EXCEPT !.processing = FALSE], q)
               [] msg.t = "NewState" ->
                    GuiDrain(Tail(msgs), [gui EXCEPT !.connected = msg.c],
                             IF msg.r
                             THEN CtlTrySend(q, MaxCtlQ,
                                      CtlCmd("UpdateState", msg.c))
                             ELSE q)

GuiCheckResponses ==
    /\ ct_appq # <<>>
    /\ LET d == GuiDrain(ct_appq, [connected |-> gui_connected,
                                    processing |-> gui_processing], ct_q)
       IN  /\ gui_connected' = d.gui.connected
           /\ gui_processing' = d.gui.processing
           /\ ct_q' = d.q
    /\ ct_appq' = <<>>
    /\ UNCHANGED <<cl_stream, cl_connected, ct_connected, ct_lost, ct_n,
                   ct_ticks>>
    /\ UNCHANGED CtlRest

NextCtl ==
    \/ UpdateControllerState
    \/ GuiConnect
    \/ GuiDisconnect
    \/ GuiShutdown
    \/ GuiReboot
    \/ GuiUpdateSocket
    \/ GuiCheckResponses
    \/ CtlUpdateState
    \/ CtlInitialConnect
    \/ CtlUpdateSocket
    \/ CtlDisconnect
    \/ CtlShutdown
    \/ CtlReboot
    \/ SendHeartbeat
    \/ Reconnect

SpecCtl == Init /\ [][NextCtl]_vars

\* ------------------------------------------------- the colour picker
\* PGenApp::set_config_colour_from_srgb for one component of the colour
\* picked: scaled by scale_8b_rgb_to_10b with diff 2.0 from full range to
\* the range of the pattern configuration.
SetConfigColourFromSrgb ==
    /\ \E c \in 0..U8Max, depth \in {8, 10}, limited_range \in BOOLEAN :
         /\ sc_c' = c
         /\ sc_depth' = depth
         /\ sc_limited' = limited_range
         /\ sc_out' = Scale8bRgbTo10b(c, 2, depth, limited_range, FALSE)
    /\ UNCHANGED <<driverVars, targetVars, patternVars, timeoutVars,
                   parseVars, refVars, gammaVars, cctVars, tfVars, doviVars,
                   jobVars, measVars, appVars, procVars, genVars, ctlVars>>

NextScale == SetConfigColourFromSrgb

SpecScale == Init /\ [][NextScale]_vars

\* ------------------------------------------------------------- liveness
\* The job worker and the driver are tasks of the runtime: a step of theirs
\* that stays possible is taken.  The tool, and the requests that reach the
\* job worker, are free to do nothing.
LiveSpec ==
    /\ Init
    /\ [][Next]_vars
    /\ WF_vars(StartReturned)
    /\ WF_vars(HandshakeErrLine)
    /\ WF_vars(HandshakeReadByte)
    /\ WF_vars(HandshakeReadErr)
    /\ WF_vars(LoopErrLine)
    /\ WF_vars(TakeCmd)
    /\ WF_vars(SendPatternAndWait)
    /\ WF_vars(TryMeasureBegin)
    /\ WF_vars(MeasureSyncRead)
    /\ WF_vars(MeasureResultRead)
    /\ WF_vars(MeasureTimeout)
    /\ WF_vars(ExitWriteQ1)
    /\ WF_vars(ExitSleep)
    /\ WF_vars(ExitWriteQ2)
    /\ WF_vars(ExitDrain)
    /\ WF_vars(ExitWait)

\* ------------------------------------------------------------ claims
Finals == {"StartFailed", "Terminated"}

SomeCount(evs) ==
    Cardinality({i \in 1..Len(evs) : evs[i].t = "SpotreadRes" /\ evs[i].ok})

\* C1: every DoReading the driver has finished handling produced exactly one
\* SpotreadRes event: Some(result) when try_measure ended Ok, None when it
\* failed or timed out.
C1_ExactlyOneResultEvent ==
    m.how # "none" =>
        /\ m.some + m.none = 1
        /\ (m.how = "ok") <=> (m.some = 1)

\* C2: the step in which a measurement times out leaves the child, its pipes
\* and the command channel untouched, sends exactly SpotreadRes(None) and puts
\* the driver back at the select! of its loop.
C2_TimeoutKeepsProcess ==
    [][(m.how = "none" /\ m'.how = "timeout") =>
          /\ child' = child
          /\ stdout' = stdout
          /\ stderr' = stderr
          /\ rxq' = rxq
          /\ exitLog' = exitLog
          /\ events' = Append(events, SpotreadResNone)
          /\ pc' = "Idle"]_vars

\* C2 witness: a DoReading timed out, the child is still running and a later
\* DoReading was handled and ended with a result.
C2_Witness ==
    /\ child = "running"
    /\ \E i, j \in 1..Len(hist) :
          /\ i < j
          /\ hist[i].how = "timeout"
          /\ hist[j].how = "ok"
    /\ m.some = 1

\* C3: once a Diagnostic line has arrived on stderr while a DoReading is in
\* flight, that DoReading does not run to its result, failure or timeout.
C3_DiagnosticInterrupts == m.diagInFlight => m.how = "none"

C5_FifoOneAtATime ==
    /\ \A i \in 1..Len(hist) : i < Len(hist) => hist[i].how # "none"
    /\ \A i, j \in 1..Len(hist) :
          i < j => /\ hist[i].c = "DoReading"
                   /\ hist[j].c = "DoReading" => hist[i].id < hist[j].id
    /\ \A i \in 1..Len(rxq), j \in 1..Len(hist) :
          (rxq[i].c = "DoReading" /\ hist[j].c = "DoReading")
              => hist[j].id < rxq[i].id
    /\ \A i, j \in 1..Len(rxq) :
          i < j => /\ rxq[i].c = "DoReading"
                   /\ rxq[j].c = "DoReading" => rxq[i].id < rxq[j].id
    /\ InFlight => /\ hist # <<>>
                   /\ hist[Len(hist)].how = "none"
                   /\ hist[Len(hist)].id = cur

\* C5 witness: one DoReading handled, the next in flight, an Exit queued.
C5_Witness ==
    /\ InFlight
    /\ Len(hist) = 2
    /\ hist[1].how # "none"
    /\ rxq = <<ExitCmd>>

\* C6: a DoReading taken with can_take_reading unset that ran to the end of
\* try_measure (no timeout, no write error) with the child alive has written
\* exactly one trigger newline.
C6_UnsyncedStillTriggers ==
    (m.unsynced /\ m.how \in {"ok", "err", "bad"} /\ child = "running")
        => m.trig = 1

\* C7: after the trigger newline, try_measure ends (other than by the timeout)
\* only when a result line or a "Spot read failed" line has been read.
C7_ReadsUntilResultOrFailure ==
    (m.trig = 1 /\ m.how \in {"ok", "err", "bad"} /\ child = "running")
        => m.endSeen

\* C8 as stated: the start call returns Ok only after the driver has read a
\* line that contains the ready prompt.
C8_IdleOnlyAfterPrompt == startRes = "ok" => promptSeen

\* C8 as amended: the start call returns Ok, the worker keeps a sender and
\* SpotreadStarted(true) is sent only after the tool has printed on stdout
\* (the byte read by the handshake), whether or not it was the prompt.
C8_IdleOnlyAfterOutput ==
    /\ startRes = "ok" => (nOut >= 1 /\ pc \notin {"NotStarted", "Handshake",
                                                   "StartFailed"})
    /\ (spotread_tx \/ \E i \in 1..Len(events) :
                          events[i] = SpotreadStarted(TRUE))
          => startRes = "ok"

\* C8 witness: started, sender kept, and all the tool has printed is text
\* without the prompt.
C8_Witness ==
    /\ spotread_tx
    /\ pc = "Idle"
    /\ nOut = 1
    /\ stdout = <<"other">>
    /\ ~promptSeen

\* C9: when the driver task has ended after an Exit command, exit() has
\* drained stdout, written q, paused, written q, drained stdout and waited,
\* in this order, and the child has reported its exit status.
C9_ExitSequence ==
    (interactive /\ pc = "Terminated") =>
        /\ exitLog = <<"drain", "q", "sleep", "q", "drain", "wait">>
        /\ child = "reaped"

C13_ResultCarriesRequestTarget ==
    \A i \in 1..Len(results) :
        /\ results[i].req \in 1..Len(issued)
        /\ results[i].target = issued[results[i].req]

\* C13 witness: a result was sent for a request whose target differs from
\* the global parameters as they are now.
C13_Witness ==
    /\ results # <<>>
    /\ results[Len(results)].target # cal_state
    /\ handling.req = results[Len(results)].req

\* C14: when the trigger newline is written, the pattern last sent to the
\* display has the patch colour of the DoReading being handled.
C14_PatternShownAtTrigger == pstep = "triggered" => display = pcmd

\* C15: the step in which child.wait() returns does the same whatever the
\* status: SpotreadStarted(false) is the one event sent (no result event),
\* the child is reaped and the driver ends (the start call fails when the
\* exit happened during the handshake).
C15_ExitStatusOnlyLogged ==
    [][(pc = "ExitWait" /\ pc' # pc) =>
          /\ exitStatus' \in ExitStatuses
          /\ events' = Append(events, SpotreadStarted(FALSE))
          /\ child' = "reaped"
          /\ pc' = IF startRes = "pending" THEN "StartFailed"
                   ELSE "Terminated"
          /\ UNCHANGED <<spotread_tx, jw, m, cur, doneMeasuring>>]_vars

\* C15 witness: the driver task has ended after an Exit command whose wait
\* returned a non-zero status; SpotreadStarted(false) is the last event.
C15_Witness ==
    /\ exitStatus = "nonzero"
    /\ interactive
    /\ pc = "Terminated"
    /\ events # <<>>
    /\ events[Len(events)] = SpotreadStarted(FALSE)

C17_ResultWithExtraText ==
    (out # NoOut /\ Len(line.xyz) = 3 /\ Len(line.lab) = 3)
        => out = [t |-> "Some", xyz |-> line.xyz, lab |-> line.lab]

\* C18: every target built for a measurement request has its ref_rgb
\* component within [0, 1] (and building it does not fail).
C18_RefRgbInUnitRange ==
    ref_rgb.st # "none" =>
        /\ ref_rgb.st = "sent"
        /\ 0 <= ref_rgb.num
        /\ ref_rgb.num <= ref_rgb.den

\* C19: gamma() returns a value exactly for the readings whose ref_rgb
\* components are all equal and lie strictly between 0.01 and 1.0; for a
\* stimulus of 0.01 or less, of 1.0, or an unequal triple it returns None.
C19_GammaOnlyInsideOpenRange ==
    gamma_out # NoGamma =>
        ((gamma_out.t = "Some") <=>
            /\ reading.ref_rgb[1] = reading.ref_rgb[2]
            /\ reading.ref_rgb[2] = reading.ref_rgb[3]
            /\ 1 < reading.ref_rgb[1]
            /\ reading.ref_rgb[1] < 100)

Eligible(rs) == {i \in 1..Len(rs) : Gamma(rs[i]).t = "Some"}

RECURSIVE SumOver(_, _)
SumOver(rs, S) ==
    IF S = {} THEN 0
    ELSE LET i == CHOOSE j \in S : TRUE
         IN Gamma(rs[i]).v + SumOver(rs, S \ {i})

\* C20: the average gamma of a result set is the sum of the defined gamma()
\* values divided by the number of readings that have one, and None when no
\* reading has one.
C20_AverageOverEligible ==
    avg_gamma # NoAverage =>
        IF Eligible(readings) = {}
        THEN avg_gamma.t = "None"
        ELSE /\ avg_gamma.t = "Some"
             /\ avg_gamma.den # 0
             /\ avg_gamma.num * Cardinality(Eligible(readings))
                    = SumOver(readings, Eligible(readings)) * avg_gamma.den

\* The chromaticity (us, vs) of an XYZ with a positive component.
CctUs(c) == (4 * 1000 * c[1]) \div (c[1] + 15 * c[2] + 3 * c[3])

CctVs(c) == (6 * 1000 * c[2]) \div (c[1] + 15 * c[2] + 3 * c[3])

\* The signed distance is on different sides for rows i - 1 and i.
SignChanges(c, i) ==
    (Distance(CctUs(c), CctVs(c), i) < 0)
        # (Distance(CctUs(c), CctVs(c), i - 1) < 0)

\* C21: xyz_to_cct returns None when all three XYZ components are below the
\* near-zero threshold, and None when the signed distance changes sign
\* between no two consecutive rows; a value comes with bracketing rows i - 1
\* and i, 1 <= i <= 30, between which the sign changes, so both rows are rows
\* of the tables.
C21_CctNoneAndBracketInRange ==
    cct_out # NoCct =>
        /\ (\A k \in 1..3 : xyz[k] <= 0) => cct_out = CctNone
        /\ ((\E k \in 1..3 : xyz[k] > 0)
              /\ \A i \in 1..(Rows - 1) : ~SignChanges(xyz, i))
             => cct_out = CctNone
        /\ cct_out.t = "Some" =>
             /\ 1 <= cct_out.i
             /\ cct_out.i <= 30
             /\ cct_out.i - 1 \in 0..(Len(UVT) - 1)
             /\ cct_out.i \in 0..(Len(RECIPROCAL_TEMP) - 1)
             /\ SignChanges(xyz, cct_out.i)

\* C21 witness: a value was returned with the last two rows bracketing.
C21_Witness == cct_out.t = "Some" /\ cct_out.i = 30

\* C22: a returned CCT has its interpolation fraction p in [0,1] and is the
\* reciprocal of a positive reciprocal temperature lying between those of
\* the two bracketing rows, for every bracketing pair.
C22_CctBetweenRows ==
    cct_out.t = "Some" =>
        LET lo == RECIPROCAL_TEMP[cct_out.i]
            hi == RECIPROCAL_TEMP[cct_out.i + 1]
            r == cct_out.recip
            s == IF r.den < 0 THEN -1 ELSE 1
        IN  /\ cct_out.pd # 0
            /\ 0 <= cct_out.pn * s
            /\ cct_out.pn * s <= cct_out.pd * s
            /\ r.big = 0
            /\ r.fin * s > 0
            /\ lo.fin * r.den * s <= r.fin * s
            /\ r.fin * s <= hi.fin * r.den * s

\* The uncompensated encode / decode of the input of value_bpc.
Uncompensated == Value(tf_in.eotf, Tenths(tf_in.v), tf_in.oetf)

\* C23 as stated: for every input in [0,1], value_bpc with min = 0 equals
\* the uncompensated value, and with min > 0 it is strictly greater than the
\* uncompensated value and lies within [min, 1].
C23_BpcStrictlyAbove ==
    (bpc_out # NoValue /\ tf_in.v >= 0) =>
        /\ tf_in.min = 0 => bpc_out = Uncompensated
        /\ tf_in.min > 0 =>
             /\ FLt(Uncompensated, bpc_out)
             /\ FLe(Tenths(tf_in.min), bpc_out)
             /\ FLe(bpc_out, Frac(1, 1))

\* C23 amended: for every input in [0,1], value_bpc with min = 0 equals the
\* uncompensated value; for PQ min is forced to 0, so it equals it for every
\* min; for the gamma EOTFs with min > 0 it lies within [min, 1] and is
\* strictly greater than the uncompensated value for every input below 1,
\* and equal to it (1) at input 1.
C23_BpcAboveBelowOne ==
    (bpc_out # NoValue /\ tf_in.v >= 0) =>
        /\ (tf_in.min = 0 \/ tf_in.eotf = "PQ") => bpc_out = Uncompensated
        /\ (tf_in.min > 0 /\ tf_in.eotf # "PQ") =>
             /\ IF tf_in.v < 10 THEN FLt(Uncompensated, bpc_out)
                ELSE bpc_out = Uncompensated /\ bpc_out = Frac(1, 1)
             /\ FLe(Tenths(tf_in.min), bpc_out)
             /\ FLe(bpc_out, Frac(1, 1))

\* C23 witness: a gamma decode with a black level above 0 of an input
\* between the black level and 1 gave more than the plain decode.
C23_Witness ==
    /\ bpc_out # NoValue
    /\ tf_in.eotf = "Gamma24"
    /\ ~tf_in.oetf
    /\ tf_in.min = 2
    /\ tf_in.v = 9
    /\ FLt(Uncompensated, bpc_out)
    /\ FLt(bpc_out, Frac(1, 1))

\* C24: for PQ, encode(0) is exactly 0 and decode(x) is exactly 0 for every
\* x <= 0.
C24_PqZeroMapsToZero ==
    (val_out # NoValue /\ tf_in.eotf = "PQ") =>
        /\ (tf_in.oetf /\ tf_in.v = 0) => val_out = Frac(0, 1)
        /\ (~tf_in.oetf /\ tf_in.v <= 0) => val_out = Frac(0, 1)

\* C24 amended: for PQ, decode(x) is exactly 0 for every x <= 0, and
\* encode(0) is the small positive value (3424 / 4096) ^ 78.84375, below
\* 1e-6, not 0.
C24_PqDecodeZeroEncodeSmall ==
    (val_out # NoValue /\ tf_in.eotf = "PQ") =>
        /\ (~tf_in.oetf /\ tf_in.v <= 0) => val_out = Frac(0, 1)
        /\ (tf_in.oetf /\ tf_in.v = 0) =>
             /\ FLt(Frac(0, 1), val_out)
             /\ FLt(val_out, Frac(1, 1000000))

\* C24 witness: a negative input was decoded with PQ, to 0.
C24_Witness ==
    /\ tf_in.eotf = "PQ"
    /\ ~tf_in.oetf
    /\ tf_in.v < 0
    /\ val_out = Frac(0, 1)

\* c / 4 rounded to the nearest integer, halves upwards.
QuarterRounded(c) == (c + 2) \div 4

\* C25: a pattern configuration stored and sent by send_pattern_from_cfg
\* while the controller is in Dolby Vision mode has bit depth 8; for a 10 bit
\* request every patch and background component is the request's divided by
\* 4 and rounded (514 gives 129, 512 gives 128, 64 gives 16), for an 8 bit
\* request the components are the request's.
C25_DoviPatternsAre8Bit ==
    (dv_last = "sent" /\ dovi) =>
        /\ dv_sent = pattern_config
        /\ pattern_config.bit_depth = 8
        /\ \A k \in 1..3 :
            IF dv_req.bit_depth = 10
            THEN /\ pattern_config.patch_colour[k]
                        = QuarterRounded(dv_req.patch_colour[k])
                 /\ pattern_config.background_colour[k]
                        = QuarterRounded(dv_req.background_colour[k])
            ELSE /\ pattern_config.patch_colour[k] = dv_req.patch_colour[k]
                 /\ pattern_config.background_colour[k]
                        = dv_req.background_colour[k]

\* C25 witness: in Dolby Vision mode the 10 bit request of
\* test_8bit_override was stored and sent as 129,128,128 over 16,16,16.
C25_Witness ==
    /\ dv_last = "sent"
    /\ dovi
    /\ dv_req.bit_depth = 10
    /\ dv_req.patch_colour = <<514, 512, 512>>
    /\ dv_sent.bit_depth = 8
    /\ dv_sent.patch_colour = <<129, 128, 128>>
    /\ dv_sent.background_colour = <<16, 16, 16>>

\* C26: every Processing update of the job worker is eventually followed by
\* a DoneProcessing update.
C26_ProcessingEndsDone == processing ~> ~processing

\* C27: a SpotreadRes(Some) sent for a DoReading is parsed from a line the
\* tool printed in response to the trigger newline of that same DoReading.
C27_ResultFromOwnTrigger ==
    \A i \in 1..Len(ms_emitted) : ms_emitted[i].of = ms_emitted[i].cmd

\* C28: a trigger newline is written only on the sticky can_take_reading
\* flag, set by a prompt read since the previous trigger, or on a prompt in
\* the chunk read in this cycle; and at most one is written per DoReading.
C28_TriggerOnlyAfterPrompt ==
    /\ [][ms_trig' = ms_trig + 1 =>
            /\ \/ ms_pc = "Begin" /\ ms_flag /\ ms_since
               \/ ms_pc = "Sync" /\ MsAnyPrompt(ms_chunk')
            /\ ms_trig = 0]_vars
    /\ [](ms_trig <= 1)

\* C28 witness: the first DoReading read its own result and the next prompt
\* in one chunk, and the second wrote its trigger on the sticky flag.
C28_Witness ==
    /\ ms_cur = 2
    /\ ms_trig = 1
    /\ ms_pc = "Read"
    /\ ms_emitted = <<[cmd |-> 1, of |-> 1]>>
    /\ ms_chunk = <<[k |-> "result", of |-> 1], [k |-> "prompt", of |-> 1]>>

\* Measurement requests sent and not answered yet: in the job worker's
\* channel, in the driver's channel, or being measured.
Outstanding ==
    Len(SelectSeq(ap_extq, LAMBDA c : c.t = "SpotreadMeasure"))
        + Len(ap_drvq) + (IF ap_drv # 0 THEN 1 ELSE 0)

\* C29: at most one measurement request is outstanding at any time.
C29_OneRequestOutstanding == Outstanding <= 1

\* C30: a patch's stored result was measured on that patch's colour.
C30_ResultOnMeasuredPatch ==
    \A i \in Patches : ap_res[i] \in {0, i}

\* C32: a start request completes: when the child has ended with nothing
\* on stdout and nothing on stderr, the handshake ends and the job worker
\* is idle again.
C32_StartCompletes ==
    (pc = "Handshake" /\ child = "exited" /\ stdout = <<>> /\ stderr = <<>>)
        ~> (jw = "idle")

\* C31: once a stop request is the last start or stop request handled, the
\* app comes to see the process as stopped with no sender held by the
\* worker (or a later start request is handled).
C31_StopIsObserved ==
    pr_stopped ~> (~pr_stopped \/ (~pr_started /\ pr_tx = 0))

\* The children that are alive.
AliveProcs == {d \in Procs : pr_child[d]}

\* C33: at most one subprocess started by the job worker is alive.
C33_OneSubprocessAlive == Cardinality(AliveProcs) <= 1

\* The SpotreadRes(Some) messages of a channel, and its SpotreadRes(None)
\* messages.
SomeResults(q) == SelectSeq(q, LAMBDA u : u.t = "SpotreadRes" /\ u.p # 0)
NoneResults(q) == SelectSeq(q, LAMBDA u : u.t = "SpotreadRes" /\ u.p = 0)

\* The app handles the messages of its channel, one result among them.
HandlesOneSome ==
    /\ ap_rx # <<>> /\ ap_rx' = <<>>
    /\ Len(SomeResults(ap_rx)) = 1 /\ NoneResults(ap_rx) = <<>>

HandlesOneNone ==
    /\ ap_rx # <<>> /\ ap_rx' = <<>>
    /\ Len(NoneResults(ap_rx)) = 1 /\ SomeResults(ap_rx) = <<>>

C35_NoneEndsRun ==
    [][HandlesOneNone =>
          /\ ~ap_started'
          /\ ap_ctlq' = JobTrySend(ap_ctlq, TRUE, "SetBlank")
          /\ ap_extq' = ap_extq
          /\ ap_res' = ap_res
          /\ ap_sel' = ap_sel]_vars

\* C35 witness: the first reading of an auto advance run gave None.
C35_Witness ==
    /\ ap_auto /\ ~ap_started
    /\ ap_sel = 1
    /\ ap_res = [i \in Patches |-> 0]
    /\ ap_n = 1
    /\ ap_rx = <<>>
    /\ ap_drv = 0 /\ ap_drvq = <<>> /\ ap_extq = <<>>
    /\ ap_ctlq = <<"SetBlank">>

\* C36: once the generator client task has ended, the app comes to see the
\* client as not listening.
C36_EndedClientNotListening == (gc_task = "ended") ~> ~gc_listening

\* C37: once a response has found the device disconnected, the controller's
\* connected flag stays false until another response finds it connected; a
\* state update of the GUI does not raise it.
C37_FlagFollowsResponses == ct_lost => ~ct_connected

\* C38: in the PGenerator client connected is true only while a stream is
\* held.
C38_ConnectedHoldsStream == cl_connected => cl_stream

\* C38 witness: after two commands of the GUI and a heartbeat or reconnect
\* tick the client is connected and holds its stream.
C38_Witness == cl_connected /\ cl_stream /\ ct_ticks > 0 /\ ct_n > 1

\* C39: an 8 bit component scaled to a deeper bit depth lies in the RGB
\* range of that depth and quantisation range; 255 becomes 1023 for 10 bit
\* full range.
C39_ScaledInRange ==
    sc_depth > 8 =>
        /\ sc_out >= MinRgbValue(sc_limited, sc_depth)
        /\ sc_out <= MaxRgbValue(sc_limited, sc_depth)
        /\ (sc_c = U8Max /\ ~sc_limited /\ sc_depth = 10 => sc_out = 1023)
====
